---- MODULE Spec2Model ----
(***************************************************************************)
(* SQLlog: the PLC-to-SQL bridge.  The handshake coordinator               *)
(* (HandshakeStateMachine), the PLC gateway (PLCClient), the database      *)
(* writer (SQLClient), the durable buffer (LocalCache) with its sync       *)
(* thread, the heartbeat thread (HeartbeatService), and the PLC program    *)
(* and the database as their environment.                                  *)
(***************************************************************************)
EXTENDS Integers, Sequences, FiniteSets, TLC

(* ------------------------------ bounds -------------------------------- *)
\* number of batch sequences the coordinator may start
MaxBatches == 2
\* a drain cycle starts only while every entry's attempts counter is below this
MaxAttempts == 2
\* number of remove_record calls that may fail (each leaves a synced entry behind)
MaxRemoveFailures == 1
\* number of heartbeat writes that may succeed beside the coordinator
MaxBeats == 1
\* number of force_clear_fault calls an operator may make
MaxForce == 1
\* number of times the process may be killed and started again
MaxRestarts == 1
\* number of entries the cache may hold when a drain is examined on its own
MaxQueued == 3
\* number of successful heartbeat writes when the service is examined on
\* its own
MaxWrites == 3
\* number of insert_record calls when the writer is examined on its own
MaxAdds == 2           \* add_record calls per thread
MaxCalls == 2

(* ------------------------- program constants -------------------------- *)
\* HandshakeState
IDLE == 0
TRIGGERED == 1
ACKNOWLEDGE == 2
FAULT == 99

\* ErrorCode
NONE == 0
PLC_READ_FAILED == 1
VALIDATION_FAILED == 2
SQL_AND_CACHE_FAILED == 3
PLC_WRITE_FAILED == 4

\* ConnectionStatus
CONNECTED == "connected"
SQL_OFFLINE == "sql_offline"
PLC_OFFLINE == "plc_offline"
STATUS_FAULT == "fault"

\* SQLClient.max_retries (default)
max_retries == 3
retry_base_delay == 1
retry_max_delay == 60

\* Python's None, and a present value
None == <<>>
Some(x) == <<x>>

(* --------------------------- configuration ---------------------------- *)
\* config "mappings": PLC field -> SQL column
mappings == [f \in {"TOTAL_WT"} |-> "Total_Weight"]

\* config plc "extra_tags" / "bulk_names": none configured (the default)
extra_tags == {}

\* SQLlogApp._build_extra_mappings: a column for each configured extra tag
extra_mappings == [f \in extra_tags \cap {"sequence_number"} |-> "SEQ_Number"]

\* config "validation": limits per field; each limit is None or Some(bound)
validation == [f \in {"TOTAL_WT"} |-> [min |-> Some(0), max |-> Some(50000)]]

\* {**a, **b}: the entries of b override those of a
DictMerge(a, b) ==
  [k \in (DOMAIN a) \cup (DOMAIN b) |-> IF k \in DOMAIN b THEN b[k] ELSE a[k]]

\* labels of config "extra_tags" that _build_extra_mappings gives a column
ExtraTagLabels == {"sequence_number", "batch_ratio", "recycle_weight"}

\* labels of config "bulk_names" that it gives a column (the first two of
\* slot_1 .. slot_9)
SlotLabels == {"slot_1", "slot_2"}

\* the column _build_extra_mappings gives each label
ExtraColumn ==
  [k \in ExtraTagLabels \cup SlotLabels |->
     CASE k = "sequence_number" -> "SEQ_Number"
       [] k = "batch_ratio" -> "BATCH_RATIO"
       [] k = "recycle_weight" -> "RECYCLE_Weight"
       [] k = "slot_1" -> "B001_Name"
       [] k = "slot_2" -> "B002_Name"]

\* SQLlogApp._build_extra_mappings over config "extra_tags" and
\* "bulk_names"
build_extra_mappings(tags, bulk) ==
  [k \in (tags \cap ExtraTagLabels) \cup (bulk \cap SlotLabels)
     |-> ExtraColumn[k]]

\* config "mappings" as an installation may write it: any of these tag
\* names, each with a column of the installation's choice
MappingColumn ==
  [k \in {"TOTAL_WT", "sequence_number", "slot_1"} |->
     CASE k = "TOTAL_WT" -> "Total_Weight"
       [] k = "sequence_number" -> "Sequence"
       [] k = "slot_1" -> "Slot_One"]

ConfigMappings == {[k \in ks |-> MappingColumn[k]] : ks \in SUBSET DOMAIN MappingColumn}

\* What the recipe UDT read can return: the TOTAL_WT field, null or a number
RecipeValues == {None, Some(-100), Some(1000), Some(60000)}

\* A field value that is not a number (a string member of the UDT): it is
\* kept apart from None and from Some(n) by its length
TextValue == <<"text", "text">>
IsNumber(v) == Len(v) = 1

VARIABLES
  \* --- the PLC (environment) ---
  trigger,          \* value of the trigger tag in the PLC
  errorCodeTag,     \* value of the error-code tag in the PLC
  \* --- PLCClient ---
  plc_connected,    \* PLCClient._connected
  \* --- the database (environment) ---
  table,            \* rows of the remote table, each the batch it came from
  \* --- SQLClient ---
  sql_connected,    \* SQLClient._connected
  timestamp_column, \* TRUE iff a timestamp column is configured
  \* --- LocalCache ---
  pending,          \* pending_records, ordered by id
  nextId,           \* next AUTOINCREMENT id
  cfgMappings,      \* config row "mappings": None or Some(mapping)
  \* --- HandshakeStateMachine ---
  current_state,
  last_error,
  fault_time,
  sql_was_down,
  \* --- the coordinator's position inside poll() ---
  pc,               \* "wait" between ticks, else the next step of poll()
  recipe_data,      \* the record held during the tick (None outside)
  fault_code,       \* argument of the _set_fault call in progress
  attempt,          \* insert_record's loop index, per calling thread
  batchNo,          \* number of batch sequences started so far
  \* --- the sync thread's position inside _sync_pending ---
  syncPc,           \* "wait" between drain cycles, else the next step
  syncMappings,     \* the local variable mappings
  syncRecord,       \* the local variable record: None or Some(entry)
  removeFailures,   \* number of remove_record calls that failed
  \* --- HeartbeatService and the heartbeat tag ---
  heartbeatTag,     \* value of the heartbeat tag in the PLC
  current_value,    \* HeartbeatService._current_value
  hbPc,             \* next step of _heartbeat_loop: "read" or "increment"
  hbStart,          \* value of the heartbeat tag when the service started
  hbWrites,         \* number of heartbeat writes that succeeded so far
  hbStaleWrite,     \* a write was made from a value other than the tag's
  \* --- a force_clear_fault call in progress ---
  forcePc,          \* "idle" outside the call, else its next step
  forceLog,         \* the PLC calls it has made, with their results
  forceCalls,       \* number of force_clear_fault calls so far
  \* --- an insert_record call examined on its own ---
  irPc,             \* "idle", "attempt" (in the retry loop) or "done"
  irData,           \* the record passed to the call
  irAttempt,        \* the loop index
  irLog,            \* what each iteration of the loop did
  irRet,            \* the value returned, once the call is done
  irCalls,          \* number of calls so far
  \* --- PLCClient's lock and the calls in progress on the driver ---
  plcLock,          \* the thread holding PLCClient._lock, or "none"
  plcCall,          \* per thread inside a PLCClient method: which, and where
  plc_driver,       \* PLCClient._driver is set (not None)
  \* --- LocalCache's lock and the add_record calls in progress ---
  dbLock,           \* the thread holding LocalCache._db_lock, or "none"
  addCall,          \* per thread calling add_record side by side: where
                    \* it is in the call, and its calls so far
  \* --- a validate_recipe_data call examined on its own ---
  validateCall,     \* None, or Some of its arguments and what it returned
  \* --- the sync thread's loop and stop_sync_thread ---
  stop_event,       \* LocalCache._stop_event is set
  force_sync_event, \* LocalCache._force_sync_event: None, or Some(is set)
  loopPc,           \* where the thread is in _sync_loop: "while",
                    \* "sync_pending", "wait", "clear" or "exited"
  stopPc,           \* where a stop_sync_thread call is: "idle", "set_force"
                    \* or "join"
  \* --- SQLlogApp.initialize examined on its own ---
  startup,          \* None, or the configuration loaded and what was built
                    \* from it so far
  \* --- history of the drain ---
  syncKind,         \* how B answered the entry the drain has just sent
  lastFailed,       \* id of the entry B refused last and has not taken since
  countBeforeAdd,   \* pending_count before add_record stored an entry, while
                    \* no drain cycle was under way then or has ended since
  lastOpOk,         \* the drain's last operation on the cache succeeded
  \* --- the process ---
  restarts,         \* number of times the process was started again
  \* --- history of the current / last tick (observation only) ---
  tickStart,        \* current_state when the tick began
  tickTrigger,      \* what read_trigger returned: None or Some(v)
  tickLog,          \* the calls poll() made, in order, with their results
  insertKind,       \* how the tick's insert_record call ended ("none" before)
  accepted,         \* batches whose record insert_record or add_record accepted
  lastPersist,      \* where the latest persistence attempt went: "B", "C", "none"
  completed         \* batches for which write_trigger(0) was attempted

vars == <<trigger, errorCodeTag, plc_connected, table,
          sql_connected, timestamp_column, pending, nextId, cfgMappings,
          current_state, last_error, fault_time, sql_was_down,
          pc, recipe_data, fault_code, attempt, batchNo,
          syncPc, syncMappings, syncRecord, removeFailures,
          heartbeatTag, current_value, hbPc, hbStart, hbWrites, hbStaleWrite,
          forcePc, forceLog, forceCalls, restarts,
          irPc, irData, irAttempt, irLog, irRet, irCalls,
          plcLock, plcCall, plc_driver, dbLock, addCall, validateCall,
          startup, stop_event, force_sync_event, loopPc, stopPc,
          syncKind, lastFailed, countBeforeAdd, lastOpOk,
          tickStart, tickTrigger, tickLog, insertKind, accepted,
          lastPersist, completed>>

plcVars == <<trigger, errorCodeTag, plc_connected>>
lockVars == <<plcLock, plcCall, plc_driver>>
dbLockVars == <<dbLock, addCall>>
sqlVars == <<table, sql_connected>>
cacheVars == <<pending, nextId, cfgMappings>>
dVars == <<current_state, last_error, fault_time, sql_was_down>>
histVars == <<tickStart, tickTrigger, tickLog, insertKind, accepted,
             completed>>
syncVars == <<syncPc, syncMappings, syncRecord, removeFailures>>
hbVars == <<heartbeatTag, current_value, hbPc, hbStart, hbWrites,
            hbStaleWrite>>
forceVars == <<forcePc, forceLog, forceCalls>>
drainHist == <<syncKind, lastFailed, countBeforeAdd, lastOpOk>>
irVars == <<irPc, irData, irAttempt, irLog, irRet, irCalls>>
loopVars == <<stop_event, force_sync_event, loopPc, stopPc>>

(* ============================ PLCClient =============================== *)
\* What one gateway operation can meet: the (re)connect fails, or the driver
\* call returns a value, returns a result carrying an error, or raises
PlcOutcomes == {"connect_failed", "ok", "error", "exception"}

\* _ensure_connected_unlocked, entered with _connected = conn: TRUE iff it
\* returns True (which is also the value of _connected after it)
EnsureConnectedUnlocked(conn, o) == conn \/ o # "connect_failed"

\* _read_tag / _write_tag / read_recipe, under the lock, entered with
\* _connected = conn and meeting o.  ok: a value / True was returned;
\* connected: _connected afterwards
PlcAccess(conn, o) ==
  IF ~EnsureConnectedUnlocked(conn, o) THEN [ok |-> FALSE, connected |-> FALSE]
  ELSE IF o = "ok" THEN [ok |-> TRUE, connected |-> TRUE]
  ELSE IF o = "error" THEN [ok |-> FALSE, connected |-> TRUE]
  ELSE [ok |-> FALSE, connected |-> FALSE]

\* The threads that call PLCClient: the coordinator, the heartbeat service
\* and the thread that runs SQLlogApp.stop()
PlcThreads == {"poll", "heartbeat", "main"}

\* The PLCClient methods, by what they do under the lock: connect,
\* disconnect, a read (_read_tag, read_recipe) and a write (_write_tag)
PlcMethods(t) ==
  IF t = "main" THEN {"connect", "disconnect"} ELSE {"read", "write"}

\* f with t mapped to v; f without t
With(f, t, v) == [u \in (DOMAIN f) \cup {t} |-> IF u = t THEN v ELSE f[u]]
Without(f, t) == [u \in (DOMAIN f) \ {t} |-> f[u]]

\* The threads that call add_record at the same time
AddThreads == {"t1", "t2", "t3"}
ThreadNo == [t \in AddThreads |-> CASE t = "t1" -> 1 [] t = "t2" -> 2 [] t = "t3" -> 3]

\* the record thread t passes in its c-th call, and the number it is known by
AddTag(t, c) == 10 * ThreadNo[t] + c
AddData(t, c) == [f \in {"TOTAL_WT"} |-> Some(AddTag(t, c))]

\* pc: where the thread is; calls: calls started; oks: the calls that
\* returned True; nid: the id its INSERT was given
NoAdd == [pc |-> "idle", calls |-> 0, oks |-> {}, nid |-> 0]

(* ============================ SQLClient =============================== *)
\* the column list insert_record builds from a record and a mapping
\* (one column per mapped, present, non-null field; then the timestamp)
Columns(data, m) ==
  {m[f] : f \in {g \in (DOMAIN m) \cap (DOMAIN data) : data[g] # None}}
    \cup (IF timestamp_column THEN {"Manufacture_Date"} ELSE {})

\* What one iteration of the retry loop can meet: _ensure_connected fails,
\* or execute/commit succeeds, raises IntegrityError, or raises another error
SqlOutcomes == {"connect_failed", "ok", "integrity", "transient"}

\* variant: an IntegrityError is handled by the generic except branch
InsertAttemptRetryingIntegrity(data, m, a, o) ==
  IF o = "connect_failed"
  THEN [ret |-> IF a < max_retries - 1 THEN "retry" ELSE "False",
        row |-> FALSE, connected |-> FALSE, kind |-> "transient"]
  ELSE IF Columns(data, m) = {}
  THEN [ret |-> "True", row |-> FALSE, connected |-> TRUE, kind |-> "empty"]
  ELSE IF o = "ok"
  THEN [ret |-> "True", row |-> TRUE, connected |-> TRUE, kind |-> "ok"]
  ELSE IF o = "integrity"
  THEN [ret |-> IF a < max_retries - 1 THEN "retry" ELSE "False",
        row |-> FALSE, connected |-> FALSE, kind |-> "integrity"]
  ELSE [ret |-> IF a < max_retries - 1 THEN "retry" ELSE "False",
        row |-> FALSE, connected |-> FALSE, kind |-> "transient"]

\* variant: the row of an attempt that fails with another error is
\* committed all the same
InsertAttemptCommittingOnError(data, m, a, o) ==
  IF o = "connect_failed"
  THEN [ret |-> IF a < max_retries - 1 THEN "retry" ELSE "False",
        row |-> FALSE, connected |-> FALSE, kind |-> "transient"]
  ELSE IF Columns(data, m) = {}
  THEN [ret |-> "True", row |-> FALSE, connected |-> TRUE, kind |-> "empty"]
  ELSE IF o = "ok"
  THEN [ret |-> "True", row |-> TRUE, connected |-> TRUE, kind |-> "ok"]
  ELSE IF o = "integrity"
  THEN [ret |-> "False", row |-> FALSE, connected |-> TRUE, kind |-> "integrity"]
  ELSE [ret |-> IF a < max_retries - 1 THEN "retry" ELSE "False",
        row |-> TRUE, connected |-> FALSE, kind |-> "transient"]

\* One iteration of insert_record's retry loop, at loop index a, meeting o.
\* ret: "True", "False" or "retry" (the loop goes on); row: a row was
\* committed; connected: _connected afterwards
InsertAttempt(data, m, a, o) ==
  IF o = "connect_failed"
  THEN [ret |-> IF a < max_retries - 1 THEN "retry" ELSE "False",
        row |-> FALSE, connected |-> FALSE, kind |-> "transient"]
  ELSE IF Columns(data, m) = {}
  THEN [ret |-> "True", row |-> FALSE, connected |-> TRUE, kind |-> "empty"]
  ELSE IF o = "ok"
  THEN [ret |-> "True", row |-> TRUE, connected |-> TRUE, kind |-> "ok"]
  ELSE IF o = "integrity"
  THEN [ret |-> "False", row |-> FALSE, connected |-> TRUE, kind |-> "integrity"]
  ELSE [ret |-> IF a < max_retries - 1 THEN "retry" ELSE "False",
        row |-> FALSE, connected |-> FALSE, kind |-> "transient"]

\* 2 ** n
Pow2(n) == IF n = 0 THEN 1 ELSE IF n = 1 THEN 2 ELSE IF n = 2 THEN 4 ELSE 8

Min(a, b) == IF a <= b THEN a ELSE b

\* _calculate_backoff: min(retry_base_delay * 2 ** attempt, retry_max_delay)
calculate_backoff(a) == Min(retry_base_delay * Pow2(a), retry_max_delay)

\* variant: a delay after every failed attempt, the last one too
RetryDelayAfterEach(a) == Some(calculate_backoff(a))

\* the generic except branch of insert_record at loop index a: it sleeps
\* calculate_backoff(a) if another attempt follows, and not otherwise
RetryDelay(a) ==
  IF a < max_retries - 1 THEN Some(calculate_backoff(a)) ELSE None

\* an iteration that gets past _ensure_connected with a column to write
\* executes the INSERT statement
ExecutesInsert(data, m, o) == o # "connect_failed" /\ Columns(data, m) # {}

(* ============================ validators ============================== *)
\* variant: the bounds are exclusive
ValidationErrorsExclusive(data, limits) ==
  {<<f, b>> \in (DOMAIN limits) \X {"min", "max"} :
     /\ f \in DOMAIN data
     /\ data[f] # None
     /\ limits[f][b] # None
     /\ IF b = "min" THEN data[f][1] <= limits[f][b][1]
                     ELSE data[f][1] >= limits[f][b][1]}

\* validate_recipe_data: the set of violated bounds (the error list)
ValidationErrors(data, limits) ==
  {<<f, b>> \in (DOMAIN limits) \X {"min", "max"} :
     /\ f \in DOMAIN data
     /\ data[f] # None
     /\ limits[f][b] # None
     /\ IF b = "min" THEN data[f][1] < limits[f][b][1]
                     ELSE data[f][1] > limits[f][b][1]}

validate_recipe_data(data, limits) == ValidationErrors(data, limits) = {}

\* value < min and value > max can be evaluated for every checked field:
\* Python raises TypeError when a value that is not a number is compared
\* with a numeric bound
Comparable(data, limits) ==
  \A f \in (DOMAIN limits) \cap (DOMAIN data) :
    \/ data[f] = None
    \/ IsNumber(data[f])
    \/ limits[f].min = None /\ limits[f].max = None

\* the order in which limits.items() yields the configured fields
LimitFields == <<"TOTAL_WT", "RECIPE_NUMBER">>

\* the errors one pass of the loop appends for field f: the min check,
\* then the max check
FieldErrors(f, data, limits) ==
  IF f \notin DOMAIN limits \/ f \notin DOMAIN data THEN <<>>
  ELSE IF data[f] = None THEN <<>>
  ELSE (IF <<f, "min">> \in ValidationErrors(data, limits)
        THEN << <<f, "min">> >> ELSE <<>>)
       \o (IF <<f, "max">> \in ValidationErrors(data, limits)
           THEN << <<f, "max">> >> ELSE <<>>)

\* the list errors after the loop has passed the first n fields
RECURSIVE ErrorList(_, _, _)
ErrorList(n, data, limits) ==
  IF n = 0 THEN <<>>
  ELSE ErrorList(n - 1, data, limits) \o FieldErrors(LimitFields[n], data, limits)

\* the records and limit configurations validate_recipe_data is tried on
\* (a dict is a function on the keys it has)
Dicts(keys, values) == UNION {[d -> values] : d \in SUBSET keys}
ValidateValues == {None, Some(-1), Some(0), Some(5), Some(10), Some(11)}
ValidateBounds == {None, Some(0), Some(10)}
ValidateData == Dicts({"TOTAL_WT", "RECIPE_NUMBER"}, ValidateValues)
ValidateLimits ==
  Dicts({"TOTAL_WT", "RECIPE_NUMBER"}, [min : ValidateBounds, max : ValidateBounds])

(* ====================== HandshakeStateMachine ========================= *)
get_status ==
  IF current_state = FAULT THEN STATUS_FAULT
  ELSE IF ~plc_connected THEN PLC_OFFLINE
  ELSE IF sql_was_down THEN SQL_OFFLINE
  ELSE CONNECTED

\* an entry of the tick's call log
Call(op, arg, ok) == [op |-> op, arg |-> arg, ok |-> ok]

\* all_mappings = {**self.mappings, **self.extra_mappings}
all_mappings == DictMerge(mappings, extra_mappings)

\* variant: a trigger of 1 starts a batch sequence whatever state D is in
PollDispatchIgnoringState(state, trig) ==
  IF trig = None THEN "update_status"
  ELSE IF trig[1] = TRIGGERED THEN "read_recipe"
  ELSE IF state = FAULT /\ trig[1] = IDLE THEN "recover"
  ELSE "update_status"

\* poll's dispatch on current_state and the trigger value read: the step
\* that follows read_trigger (trig is None when the read failed)
PollDispatch(state, trig) ==
  IF trig = None THEN "update_status"
  ELSE IF state = IDLE
       THEN (IF trig[1] = TRIGGERED THEN "read_recipe" ELSE "update_status")
  ELSE IF state = FAULT
       THEN (IF trig[1] = IDLE THEN "recover" ELSE "update_status")
  ELSE "update_status"

\* variant: _sql_was_down is not cleared when a batch sequence starts
SqlWasDownKept == sql_was_down

\* _handle_trigger's first statement: self._sql_was_down = False
SqlWasDownAtTrigger == FALSE

\* variant: the acknowledge failure reported with the read failure's code
AckFailureCodeAsRead == PLC_READ_FAILED

\* the error code each failing step hands to _set_fault
ReadFailureCode == PLC_READ_FAILED
AckFailureCode == PLC_WRITE_FAILED
ValidationFailureCode == VALIDATION_FAILED
PersistFailureCode == SQL_AND_CACHE_FAILED

\* variant: step 4 goes on to step 5 whatever insert_record returned
AfterInsertIgnoringResult(ret) == "complete"

\* step 4's branch on insert_record's result: on to step 5, or to the cache
AfterInsert(ret) == IF ret = "True" THEN "complete" ELSE "add_record"

\* variant: a failed insert_record does not set _sql_was_down
SqlWasDownNeverSet(ret, prev) == prev

\* _sql_was_down after insert_record returned ret
SqlWasDownAfterInsert(ret, prev) == IF ret = "True" THEN prev ELSE TRUE

\* countBeforeAdd once the drain has taken the step to syncPc = next: a
\* cycle that ends forgets the add_record before it
CountAfterDrainStep(next) == IF next = "wait" THEN None ELSE countBeforeAdd

\* LocalCache.add_record ends in one of these ways: both statements and the
\* commit go through, or the INSERT, the INSERT OR REPLACE or the commit
\* raises
AddRecordOutcomes == {"ok", "insert_failed", "upsert_failed", "commit_failed"}

\* the pending row add_record inserts (attempts INTEGER DEFAULT 0)
NewEntry(nid, batch, data) ==
  [id |-> nid, batch |-> batch, data |-> data, attempts |-> 0]

\* variant: only the pending row is stored, the snapshot left as it was
add_record_without_snapshot(rows, nid, cfg, batch, data, m, o) ==
  [ret |-> o = "ok",
   pending |-> IF o = "ok" THEN Append(rows, NewEntry(nid, batch, data))
               ELSE rows,
   nextId |-> IF o = "ok" THEN nid + 1 ELSE nid,
   cfgMappings |-> cfg]

\* variant: a connection in autocommit mode, each statement stored as it
\* is executed
add_record_autocommit(rows, nid, cfg, batch, data, m, o) ==
  LET inserted == o # "insert_failed"
      upserted == inserted /\ o # "upsert_failed"
  IN [ret |-> o = "ok",
      pending |-> IF inserted THEN Append(rows, NewEntry(nid, batch, data))
                  ELSE rows,
      nextId |-> IF inserted THEN nid + 1 ELSE nid,
      cfgMappings |-> IF upserted THEN Some(m) ELSE cfg]

\* LocalCache.add_record: the INSERT and the INSERT OR REPLACE run in one
\* implicit transaction of a connection opened for the call; conn.commit()
\* stores both and the call returns True. An exception before the commit
\* has returned leaves the transaction uncommitted, the connection is
\* dropped, and the call returns False.
add_record(rows, nid, cfg, batch, data, m, o) ==
  LET inserted == o # "insert_failed"
      upserted == inserted /\ o # "upsert_failed"
      committed == upserted /\ o # "commit_failed"
  IN [ret |-> committed,
      pending |-> IF committed THEN Append(rows, NewEntry(nid, batch, data))
                  ELSE rows,
      nextId |-> IF committed THEN nid + 1 ELSE nid,
      cfgMappings |-> IF committed THEN Some(m) ELSE cfg]

\* variant: step 4 goes on to step 5 whatever add_record returned
AfterAddRecordIgnoringResult(ok) == "complete"

\* the branch on add_record's result: on to step 5, or _set_fault
AfterAddRecord(ok) == IF ok THEN "complete" ELSE "fault_code"

\* variant: a failed completion write puts D in FAULT
StateAfterCompleteFaulting(ok) == IF ok THEN IDLE ELSE FAULT

\* current_state after step 5, whatever write_trigger(IDLE) returned
StateAfterComplete(ok) == IDLE

\* the PLC writes of _set_fault, in order
FaultWrites == <<"write_error_code", "write_trigger">>

\* variant: D enters FAULT only if the write of 99 succeeded
StateAfterFaultWritesIfWritten(ok) == IF ok THEN FAULT ELSE current_state

\* current_state after _set_fault's two PLC writes, whatever they returned
StateAfterFaultWrites(ok) == FAULT

\* variant: no return after _set_fault: with a record in hand the sequence
\* goes on to step 4
AfterSetFaultFallThrough ==
  IF recipe_data # None THEN "insert" ELSE "update_status"

\* the return that follows each _set_fault call in _handle_trigger
AfterSetFault == "update_status"

\* variant: D leaves FAULT only if the error code was cleared on the PLC
StateAfterRecoveryIfWritten(ok) == IF ok THEN IDLE ELSE FAULT

\* current_state after _handle_fault_recovery saw trigger = 0, whatever
\* write_error_code(NONE) returned
StateAfterRecovery(ok) == IDLE

\* variant: the manual override leaves FAULT only if the trigger was reset
StateAfterForceClearIfWritten(ok) == IF ok THEN IDLE ELSE current_state

\* current_state after force_clear_fault's two PLC writes, whatever they
\* returned
StateAfterForceClear(ok) == IDLE

\* the start of _set_fault: the fault descriptor is recorded, the two PLC
\* writes follow as steps of their own
SetFaultBegin(code) ==
  /\ last_error' = code
  /\ fault_time' = Some("now")
  /\ fault_code' = code
  /\ pc' = "fault_code"

(* ------------------------------ Init ---------------------------------- *)
InitFrom(v0) ==
  /\ trigger = IDLE
  /\ errorCodeTag = NONE
  /\ plc_connected = FALSE
  /\ table = <<>>
  /\ sql_connected = FALSE
  /\ timestamp_column \in BOOLEAN
  /\ pending = <<>>
  /\ nextId = 1
  /\ cfgMappings = None
  /\ current_state = IDLE
  /\ last_error = NONE
  /\ fault_time = None
  /\ sql_was_down = FALSE
  /\ pc = "wait"
  /\ recipe_data = None
  /\ fault_code = NONE
  /\ attempt = [t \in {"poll", "sync"} |-> 0]
  /\ batchNo = 0
  /\ syncPc = "wait"
  /\ syncMappings = None
  /\ syncRecord = None
  /\ removeFailures = 0
  /\ heartbeatTag = v0
  /\ current_value = 0
  /\ hbPc = "read"
  /\ hbStart = v0
  /\ hbWrites = 0
  /\ hbStaleWrite = FALSE
  /\ forcePc = "idle"
  /\ forceLog = <<>>
  /\ forceCalls = 0
  /\ restarts = 0
  /\ syncKind = "none"
  /\ lastFailed = None
  /\ countBeforeAdd = None
  /\ lastOpOk = TRUE
  /\ irPc = "idle"
  /\ irData = None
  /\ irAttempt = 0
  /\ irLog = <<>>
  /\ irRet = None
  /\ irCalls = 0
  /\ plcLock = "none"
  /\ plcCall = <<>>
  /\ plc_driver = FALSE
  /\ dbLock = "none"
  /\ addCall = <<>>
  /\ validateCall = None
  /\ stop_event = FALSE
  /\ force_sync_event = Some(FALSE)
  /\ loopPc = "while"
  /\ stopPc = "idle"
  /\ tickStart = IDLE
  /\ tickTrigger = None
  /\ tickLog = <<>>
  /\ insertKind = "none"
  /\ accepted = {}
  /\ lastPersist = "none"
  /\ completed = {}

\* the state after construction, the heartbeat tag of the PLC at 0
Init == InitFrom(0) /\ startup = None

\* values the heartbeat tag may hold when the service starts
HeartbeatStarts == {0, 1, 5, 32765, 32766, 32767}

\* the state after construction, the heartbeat tag at any value an earlier
\* run of the service has left in the PLC
InitHeartbeat == (\E v0 \in HeartbeatStarts : InitFrom(v0)) /\ startup = None

\* the state when SQLlogApp.initialize is entered: load_config has returned
\* one of the configurations, nothing is built yet
InitConfig ==
  /\ InitFrom(0)
  /\ \E m \in ConfigMappings, e \in SUBSET ExtraTagLabels,
        b \in SUBSET SlotLabels :
       startup = Some([mappings |-> m, extra_tags |-> e, bulk_names |-> b,
                       extra_mappings |-> None, all_mappings |-> None])

\* The cache during an outage of B: n batches have gone to the cache and
\* were completed, none has been drained yet, and the tick of the next
\* batch has read, acknowledged and validated its record, has got False
\* from insert_record and is about to call add_record. The sync thread is
\* between two cycles. AddThreads are at hand to call add_record side by
\* side.
InitCacheWith(threads, event) ==
  \E n \in 0..MaxQueued :
    /\ trigger = ACKNOWLEDGE
    /\ errorCodeTag = NONE
    /\ plc_connected = TRUE
    /\ table = <<>>
    /\ sql_connected = FALSE
    /\ timestamp_column \in BOOLEAN
    /\ pending = [k \in 1..n |-> NewEntry(k, k, [f \in {"TOTAL_WT"} |-> Some(1000)])]
    /\ nextId = n + 1
    /\ cfgMappings = IF n = 0 THEN None ELSE Some(all_mappings)
    /\ current_state = ACKNOWLEDGE
    /\ last_error = NONE
    /\ fault_time = None
    /\ sql_was_down = TRUE
    /\ pc = "add_record"
    /\ recipe_data \in {Some([f \in {"TOTAL_WT"} |-> v]) : v \in {None, Some(1000)}}
    /\ fault_code = NONE
    /\ attempt = [t \in {"poll", "sync"} |-> 0]
    /\ batchNo = n + 1
    /\ syncPc = "wait"
    /\ syncMappings = None
    /\ syncRecord = None
    /\ removeFailures = 0
    /\ heartbeatTag = 0
    /\ current_value = 0
    /\ hbPc = "read"
    /\ hbStart = 0
    /\ hbWrites = 0
    /\ hbStaleWrite = FALSE
    /\ forcePc = "idle"
    /\ forceLog = <<>>
    /\ forceCalls = 0
    /\ restarts = 0
    /\ syncKind = "none"
    /\ lastFailed = None
    /\ countBeforeAdd = None
    /\ lastOpOk = TRUE
    /\ irPc = "idle"
    /\ irData = None
    /\ irAttempt = 0
    /\ irLog = <<>>
    /\ irRet = None
    /\ irCalls = 0
    /\ plcLock = "none"
    /\ plcCall = <<>>
    /\ plc_driver = FALSE
    /\ dbLock = "none"
    /\ addCall = [t \in threads |-> NoAdd]
    /\ validateCall = None
    /\ startup = None
    /\ stop_event = FALSE
    /\ force_sync_event = event
    /\ loopPc = "while"
    /\ stopPc = "idle"
    /\ tickStart = IDLE
    /\ tickTrigger = Some(TRIGGERED)
    /\ tickLog = <<Call("read_all_recipe_data", 0, TRUE),
                   Call("write_trigger", ACKNOWLEDGE, TRUE),
                   Call("validate_recipe_data", 0, TRUE),
                   Call("insert_record", 0, FALSE)>>
    /\ insertKind = "transient"
    /\ accepted = {[batch |-> k, by |-> "cache", empty |-> FALSE] : k \in 1..n}
    /\ lastPersist = "C"
    /\ completed = 1..n

\* with AddThreads at hand, the sync thread started with the force-sync
\* event of SQLlogApp
InitCache == InitCacheWith(AddThreads, Some(FALSE))

\* the sync thread has just been started, with the force-sync event (as
\* SQLlogApp.start does) or without one (the default of start_sync_thread)
InitLoop == \E event \in {None, Some(FALSE)} : InitCacheWith({}, event)

\* the same, with one thread at hand to call add_record beside the drain
InitDrainLock == InitCacheWith({"t1"}, Some(FALSE))

(* ------------------------- poll(), step by step ----------------------- *)
\* poll: read_trigger and the dispatch on current_state; entering
\* _handle_trigger clears _sql_was_down
PollReadTrigger ==
  /\ pc = "wait"
  /\ \E o \in PlcOutcomes :
       LET r == PlcAccess(plc_connected, o)
           trig == IF r.ok THEN Some(trigger) ELSE None
           next == PollDispatch(current_state, trig)
       IN /\ plc_connected' = r.connected
          /\ tickStart' = current_state
          /\ tickTrigger' = trig
          /\ pc' = next
          /\ IF next = "read_recipe"
             THEN /\ sql_was_down' = SqlWasDownAtTrigger
                  /\ batchNo' = batchNo + 1
             ELSE UNCHANGED <<sql_was_down, batchNo>>
  /\ UNCHANGED <<loopVars, startup, dbLockVars, validateCall, lockVars,
                 irVars, drainHist, restarts, lastPersist, hbVars, forceVars,
                 syncVars, trigger, errorCodeTag, sqlVars, timestamp_column,
                 cacheVars, current_state, last_error, fault_time,
                 recipe_data, fault_code, attempt, tickLog, insertKind,
                 accepted, completed>>

\* _handle_trigger step 1: read_all_recipe_data = read_recipe, then
\* read_extra_tags, which reads nothing with no extra tag configured
ReadRecipeOf(values) ==
  /\ pc = "read_recipe"
  /\ \E o \in PlcOutcomes :
       LET r == PlcAccess(plc_connected, o) IN
       /\ plc_connected' = r.connected
       /\ tickLog' = Append(tickLog, Call("read_all_recipe_data", 0, r.ok))
       /\ IF r.ok
          THEN /\ \E v \in values :
                    recipe_data' = Some([f \in {"TOTAL_WT"} |-> v])
               /\ pc' = "ack"
               /\ UNCHANGED <<last_error, fault_time, fault_code>>
          ELSE /\ SetFaultBegin(ReadFailureCode)
               /\ UNCHANGED recipe_data
  /\ UNCHANGED <<loopVars, startup, dbLockVars, validateCall, lockVars,
                 irVars, drainHist, restarts, lastPersist, hbVars, forceVars,
                 syncVars, trigger, errorCodeTag, sqlVars, timestamp_column,
                 cacheVars, current_state, sql_was_down, attempt, batchNo,
                 tickStart, tickTrigger, insertKind, accepted, completed>>

ReadRecipe == ReadRecipeOf(RecipeValues)

\* step 2: write_trigger(ACKNOWLEDGE)
AckWrite ==
  /\ pc = "ack"
  /\ \E o \in PlcOutcomes :
       LET r == PlcAccess(plc_connected, o) IN
       /\ plc_connected' = r.connected
       /\ tickLog' = Append(tickLog, Call("write_trigger", ACKNOWLEDGE, r.ok))
       /\ IF r.ok
          THEN /\ trigger' = ACKNOWLEDGE
               /\ current_state' = ACKNOWLEDGE
               /\ pc' = "validate"
               /\ UNCHANGED <<last_error, fault_time, fault_code>>
          ELSE /\ SetFaultBegin(AckFailureCode)
               /\ UNCHANGED <<trigger, current_state>>
  /\ UNCHANGED <<loopVars, startup, dbLockVars, validateCall, lockVars,
                 irVars, drainHist, restarts, lastPersist, hbVars, forceVars,
                 syncVars, errorCodeTag, sqlVars, timestamp_column, cacheVars,
                 sql_was_down, recipe_data, attempt, batchNo, tickStart,
                 tickTrigger, insertKind, accepted, completed>>

\* step 3: validate_recipe_data
Validate ==
  /\ pc = "validate"
  /\ Comparable(recipe_data[1], validation)
  /\ LET valid == validate_recipe_data(recipe_data[1], validation) IN
     /\ tickLog' = Append(tickLog, Call("validate_recipe_data", 0, valid))
     /\ IF valid
        THEN /\ pc' = "insert"
             /\ UNCHANGED <<last_error, fault_time, fault_code>>
        ELSE SetFaultBegin(ValidationFailureCode)
  /\ attempt' = [attempt EXCEPT !["poll"] = 0]
  /\ UNCHANGED <<loopVars, startup, dbLockVars, validateCall, lockVars,
                 irVars, drainHist, restarts, lastPersist, hbVars, forceVars,
                 syncVars, plcVars, sqlVars, timestamp_column, cacheVars,
                 current_state, sql_was_down, recipe_data, batchNo, tickStart,
                 tickTrigger, insertKind, accepted, completed>>

\* step 3, validate_recipe_data raises: the exception leaves
\* _handle_trigger and poll() and is caught and logged in SQLlogApp.run;
\* the tick is over without _update_status, and _current_state is what
\* step 2 made it
ValidateRaises ==
  /\ pc = "validate"
  /\ ~Comparable(recipe_data[1], validation)
  /\ pc' = "wait"
  /\ recipe_data' = None
  /\ fault_code' = NONE
  /\ tickStart' = IDLE
  /\ tickTrigger' = None
  /\ tickLog' = <<>>
  /\ insertKind' = "none"
  /\ UNCHANGED <<loopVars, startup, dbLockVars, validateCall, lockVars,
                 irVars, drainHist, restarts, lastPersist, hbVars, forceVars,
                 syncVars, plcVars, sqlVars, timestamp_column, cacheVars,
                 dVars, attempt, batchNo, accepted, completed>>

\* step 4: sql.insert_record, one iteration of its retry loop per step
SqlInsert ==
  /\ pc = "insert"
  /\ \E o \in SqlOutcomes :
       LET r == InsertAttempt(recipe_data[1], all_mappings, attempt["poll"], o) IN
       /\ sql_connected' = r.connected
       /\ table' = IF r.row THEN Append(table, batchNo) ELSE table
       /\ IF r.ret = "retry"
          THEN /\ attempt' = [attempt EXCEPT !["poll"] = @ + 1]
               /\ UNCHANGED <<pc, tickLog, insertKind, sql_was_down, accepted,
                            lastPersist>>
          ELSE /\ attempt' = [attempt EXCEPT !["poll"] = 0]
               /\ tickLog' = Append(tickLog, Call("insert_record", 0, r.ret = "True"))
               /\ insertKind' = r.kind
               /\ lastPersist' = IF r.ret = "True" THEN "B" ELSE "C"
               /\ sql_was_down' = SqlWasDownAfterInsert(r.ret, sql_was_down)
               /\ accepted' = IF r.ret = "True"
                              THEN accepted \cup {[batch |-> batchNo, by |-> "sql",
                                                   empty |-> ~r.row]}
                              ELSE accepted
               /\ pc' = AfterInsert(r.ret)
  /\ UNCHANGED <<loopVars, startup, dbLockVars, validateCall, lockVars,
                 irVars, drainHist, restarts, hbVars, forceVars, syncVars,
                 plcVars, timestamp_column, cacheVars, current_state,
                 last_error, fault_time, recipe_data, fault_code, batchNo,
                 tickStart, tickTrigger, completed>>

\* step 4, fallback: cache.add_record (LocalCache.add_record, one
\* transaction: the pending row and the mappings row, or neither)
AddRecord ==
  /\ pc = "add_record"
  /\ \E o \in AddRecordOutcomes :
       LET r == add_record(pending, nextId, cfgMappings, batchNo,
                           recipe_data[1], all_mappings, o)
           ok == r.ret
       IN
       /\ tickLog' = Append(tickLog, Call("add_record", 0, ok))
       /\ pending' = r.pending
       /\ nextId' = r.nextId
       /\ cfgMappings' = r.cfgMappings
       /\ countBeforeAdd' = IF ~ok THEN countBeforeAdd
                            ELSE IF syncPc = "wait" THEN Some(Len(pending))
                            ELSE None
       /\ UNCHANGED <<syncKind, lastFailed, lastOpOk>>
       /\ accepted' = IF ok
                      THEN accepted \cup
                             {[batch |-> batchNo, by |-> "cache",
                               empty |-> Columns(recipe_data[1],
                                                 all_mappings) = {}]}
                      ELSE accepted
       /\ IF AfterAddRecord(ok) = "fault_code"
          THEN SetFaultBegin(PersistFailureCode)
          ELSE /\ pc' = AfterAddRecord(ok)
               /\ UNCHANGED <<last_error, fault_time, fault_code>>
  /\ UNCHANGED <<loopVars, startup, dbLockVars, validateCall, lockVars,
                 irVars, restarts, lastPersist, hbVars, forceVars, syncVars,
                 plcVars, sqlVars, timestamp_column, current_state,
                 sql_was_down, recipe_data, attempt, batchNo, tickStart,
                 tickTrigger, insertKind, completed>>

\* step 5: write_trigger(IDLE); its failure is only logged
Complete ==
  /\ pc = "complete"
  /\ \E o \in PlcOutcomes :
       LET r == PlcAccess(plc_connected, o) IN
       /\ plc_connected' = r.connected
       /\ tickLog' = Append(tickLog, Call("write_trigger", IDLE, r.ok))
       /\ trigger' = IF r.ok THEN IDLE ELSE trigger
       /\ current_state' = StateAfterComplete(r.ok)
  /\ completed' = completed \cup {batchNo}
  /\ pc' = "update_status"
  /\ UNCHANGED <<loopVars, startup, dbLockVars, validateCall, lockVars,
                 irVars, drainHist, restarts, lastPersist, hbVars, forceVars,
                 syncVars, errorCodeTag, sqlVars, timestamp_column, cacheVars,
                 last_error, fault_time, sql_was_down, recipe_data,
                 fault_code, attempt, batchNo, tickStart, tickTrigger,
                 insertKind, accepted>>

\* the PLC write of _set_fault that has op as its name: the tag values and
\* the log after it
FaultWrite(op, ok) ==
  /\ tickLog' = Append(tickLog, Call(op, IF op = "write_error_code"
                                         THEN fault_code ELSE FAULT, ok))
  /\ errorCodeTag' = IF ok /\ op = "write_error_code" THEN fault_code
                     ELSE errorCodeTag
  /\ trigger' = IF ok /\ op = "write_trigger" THEN FAULT ELSE trigger

\* _set_fault: its first PLC write
FaultWriteCode ==
  /\ pc = "fault_code"
  /\ \E o \in PlcOutcomes :
       LET r == PlcAccess(plc_connected, o) IN
       /\ plc_connected' = r.connected
       /\ FaultWrite(FaultWrites[1], r.ok)
  /\ pc' = "fault_trigger"
  /\ UNCHANGED <<loopVars, startup, dbLockVars, validateCall, lockVars,
                 irVars, drainHist, restarts, lastPersist, hbVars, forceVars,
                 syncVars, sqlVars, timestamp_column, cacheVars, dVars,
                 recipe_data, fault_code, attempt, batchNo, tickStart,
                 tickTrigger, insertKind, accepted, completed>>

\* _set_fault: its second PLC write, then the state change and
\* _update_status; _handle_trigger returns
FaultWriteTrigger ==
  /\ pc = "fault_trigger"
  /\ \E o \in PlcOutcomes :
       LET r == PlcAccess(plc_connected, o) IN
       /\ plc_connected' = r.connected
       /\ FaultWrite(FaultWrites[2], r.ok)
       /\ current_state' = StateAfterFaultWrites(r.ok)
  /\ pc' = AfterSetFault
  /\ UNCHANGED <<loopVars, startup, dbLockVars, validateCall, lockVars,
                 irVars, drainHist, restarts, lastPersist, hbVars, forceVars,
                 syncVars, sqlVars, timestamp_column, cacheVars, last_error,
                 fault_time, sql_was_down, recipe_data, fault_code, attempt,
                 batchNo, tickStart, tickTrigger, insertKind, accepted,
                 completed>>

\* _handle_fault_recovery with trigger = 0: write_error_code(NONE), then
\* back to IDLE whatever the write did
FaultRecovery ==
  /\ pc = "recover"
  /\ \E o \in PlcOutcomes :
       LET r == PlcAccess(plc_connected, o) IN
       /\ plc_connected' = r.connected
       /\ tickLog' = Append(tickLog, Call("write_error_code", NONE, r.ok))
       /\ errorCodeTag' = IF r.ok THEN NONE ELSE errorCodeTag
       /\ current_state' = StateAfterRecovery(r.ok)
       /\ IF StateAfterRecovery(r.ok) = IDLE
          THEN /\ last_error' = NONE
               /\ fault_time' = None
          ELSE UNCHANGED <<last_error, fault_time>>
  /\ pc' = "update_status"
  /\ UNCHANGED <<loopVars, startup, dbLockVars, validateCall, lockVars,
                 irVars, drainHist, restarts, lastPersist, hbVars, forceVars,
                 syncVars, trigger, sqlVars, timestamp_column, cacheVars,
                 sql_was_down, recipe_data, fault_code, attempt, batchNo,
                 tickStart, tickTrigger, insertKind, accepted, completed>>

\* the _update_status that ends poll(): the callback is handed get_status();
\* the tick is over and its locals are gone
UpdateStatus ==
  /\ pc = "update_status"
  /\ pc' = "wait"
  /\ recipe_data' = None
  /\ fault_code' = NONE
  /\ tickStart' = IDLE
  /\ tickTrigger' = None
  /\ tickLog' = <<>>
  /\ insertKind' = "none"
  /\ UNCHANGED <<loopVars, startup, dbLockVars, validateCall, lockVars,
                 irVars, drainHist, restarts, lastPersist, hbVars, forceVars,
                 syncVars, plcVars, sqlVars, timestamp_column, cacheVars,
                 dVars, attempt, batchNo, accepted, completed>>

(* ===================== LocalCache: the sync thread ==================== *)
\* variant: a DELETE that matches no row
DeleteNoRow(rows, i) == rows

\* pending_records without the row of id i (DELETE ... WHERE id = ?)
DeleteRow(rows, i) == SelectSeq(rows, LAMBDA e : e.id # i)

\* variant: UPDATE pending_records SET attempts = attempts + 1
BumpAttemptsOfAll(rows, i) ==
  [k \in 1..Len(rows) |-> [rows[k] EXCEPT !.attempts = @ + 1]]

\* UPDATE pending_records SET attempts = attempts + 1 WHERE id = ?
BumpAttempts(rows, i) ==
  [k \in 1..Len(rows) |->
     IF rows[k].id = i THEN [rows[k] EXCEPT !.attempts = @ + 1] ELSE rows[k]]

\* the attempts column counted up to MaxAttempts only (no statement of the
\* bridge reads it); this keeps the loop's state space finite
BumpAttemptsCapped(rows, i) ==
  [k \in 1..Len(rows) |->
     IF rows[k].id = i
     THEN [rows[k] EXCEPT !.attempts = Min(@ + 1, MaxAttempts)]
     ELSE rows[k]]

\* variant: the next entry is tried after a refusal
AfterSyncInsertSkipping(ret) == IF ret = "True" THEN "remove" ELSE "oldest"

\* _sync_pending on the result of insert_record: remove_record when it is
\* True, increment_attempts and break when it is False (an IntegrityError
\* is a False like any other)
AfterSyncInsert(ret) == IF ret = "True" THEN "remove" ELSE "increment"

\* variant: the cycle ends after one entry
AfterSyncRemoveBreak == "wait"

\* _sync_pending after remove_record: the while loop goes round
AfterSyncRemove == "oldest"

\* variant: the newest entry first (ORDER BY id DESC)
get_newest_record(rows, ok) ==
  IF ok /\ rows # <<>>
  THEN Some(CHOOSE r \in {rows[k] : k \in 1..Len(rows)} :
              \A k \in 1..Len(rows) : r.id >= rows[k].id)
  ELSE None

\* get_oldest_record: SELECT ... ORDER BY id ASC LIMIT 1; None when there is
\* no row and when the query fails (ok = FALSE)
get_oldest_record(rows, ok) ==
  IF ok /\ rows # <<>>
  THEN Some(CHOOSE r \in {rows[k] : k \in 1..Len(rows)} :
              \A k \in 1..Len(rows) : r.id <= rows[k].id)
  ELSE None

\* _sync_pending: get_pending_count (0 when the query fails); nothing
\* pending ends the cycle
SyncCountStep ==
  /\ syncPc = "wait"
  /\ \E ok \in BOOLEAN :
       LET count == IF ok THEN Len(pending) ELSE 0 IN
       /\ syncPc' = IF count = 0 THEN "wait" ELSE "mappings"
       /\ lastOpOk' = ok
  /\ UNCHANGED <<syncKind, lastFailed, countBeforeAdd>>
  /\ UNCHANGED <<startup, addCall, validateCall, lockVars,
                 irVars, restarts, lastPersist, hbVars, forceVars, plcVars,
                 sqlVars, timestamp_column, cacheVars, dVars, pc, recipe_data,
                 fault_code, attempt, batchNo, syncMappings, syncRecord,
                 removeFailures, histVars>>

\* (a cycle is started while every attempts counter is below MaxAttempts)
SyncCount ==
  /\ \A k \in 1..Len(pending) : pending[k].attempts < MaxAttempts
  /\ SyncCountStep

\* get_mappings ({} when the query fails or the row is missing); no
\* mappings ends the cycle
SyncGetMappings ==
  /\ syncPc = "mappings"
  /\ \E ok \in BOOLEAN :
       LET m == IF ok THEN cfgMappings ELSE None IN
       /\ IF m = None \/ DOMAIN m[1] = {}
          THEN /\ syncPc' = "wait"
               /\ syncMappings' = None
          ELSE /\ syncPc' = "oldest"
               /\ syncMappings' = m
       /\ lastOpOk' = ok
  /\ countBeforeAdd' = CountAfterDrainStep(syncPc')
  /\ UNCHANGED <<syncKind, lastFailed>>
  /\ UNCHANGED <<startup, addCall, validateCall, lockVars,
                 irVars, restarts, lastPersist, hbVars, forceVars, plcVars,
                 sqlVars, timestamp_column, cacheVars, dVars, pc, recipe_data,
                 fault_code, attempt, batchNo, syncRecord, removeFailures,
                 histVars>>

\* the loop head: get_oldest_record (ORDER BY id ASC LIMIT 1; None when the
\* query fails); no record ends the cycle
SyncGetOldest ==
  /\ syncPc = "oldest"
  /\ \E ok \in BOOLEAN :
       LET record == get_oldest_record(pending, ok) IN
       /\ syncRecord' = record
       /\ IF record # None
          THEN /\ syncPc' = "insert"
               /\ UNCHANGED syncMappings
          ELSE /\ syncMappings' = None
               /\ syncPc' = "wait"
       /\ lastOpOk' = ok
  /\ attempt' = [attempt EXCEPT !["sync"] = 0]
  /\ syncKind' = "none"
  /\ countBeforeAdd' = CountAfterDrainStep(syncPc')
  /\ UNCHANGED lastFailed
  /\ UNCHANGED <<startup, addCall, validateCall, lockVars,
                 irVars, restarts, lastPersist, hbVars, forceVars, plcVars,
                 sqlVars, timestamp_column, cacheVars, dVars, pc, recipe_data,
                 fault_code, batchNo, removeFailures, histVars>>

\* sql_client.insert_record(data, mappings), one iteration of its retry
\* loop per step
SyncInsert ==
  /\ syncPc = "insert"
  /\ \E o \in SqlOutcomes :
       LET r == InsertAttempt(syncRecord[1].data, syncMappings[1],
                              attempt["sync"], o) IN
       /\ sql_connected' = r.connected
       /\ table' = IF r.row THEN Append(table, syncRecord[1].batch) ELSE table
       /\ IF r.ret = "retry"
          THEN /\ attempt' = [attempt EXCEPT !["sync"] = @ + 1]
               /\ UNCHANGED <<syncPc, syncKind, lastFailed>>
          ELSE /\ attempt' = [attempt EXCEPT !["sync"] = 0]
               /\ syncPc' = AfterSyncInsert(r.ret)
               /\ syncKind' = r.kind
               /\ lastFailed' = IF r.ret = "True" THEN None ELSE lastFailed
  /\ UNCHANGED <<countBeforeAdd, lastOpOk>>
  /\ UNCHANGED <<startup, addCall, validateCall, lockVars,
                 irVars, restarts, lastPersist, hbVars, forceVars, plcVars,
                 timestamp_column, cacheVars, dVars, pc, recipe_data,
                 fault_code, batchNo, syncMappings, syncRecord,
                 removeFailures, histVars>>

\* insert_record returned True: remove_record(record_id), its result
\* ignored; the loop goes on
SyncRemove ==
  /\ syncPc = "remove"
  /\ \E ok \in {TRUE} \cup {b \in {FALSE} : removeFailures < MaxRemoveFailures} :
       /\ IF ok
          THEN /\ pending' = DeleteRow(pending, syncRecord[1].id)
               /\ UNCHANGED removeFailures
          ELSE /\ removeFailures' = removeFailures + 1
               /\ UNCHANGED pending
       /\ lastOpOk' = ok
  /\ syncRecord' = None
  /\ syncPc' = AfterSyncRemove
  /\ syncKind' = "none"
  /\ countBeforeAdd' = CountAfterDrainStep(syncPc')
  /\ UNCHANGED lastFailed
  /\ UNCHANGED <<startup, addCall, validateCall, lockVars,
                 irVars, restarts, lastPersist, hbVars, forceVars, plcVars,
                 sqlVars, timestamp_column, nextId, cfgMappings, dVars, pc,
                 recipe_data, fault_code, attempt, batchNo, syncMappings,
                 histVars>>

\* insert_record returned False: increment_attempts(record_id), then break;
\* capped: the attempts column is counted up to MaxAttempts only
SyncIncrementStep(capped) ==
  /\ syncPc = "increment"
  /\ \E ok \in BOOLEAN :
       /\ pending' = IF ~ok THEN pending
                     ELSE IF capped
                     THEN BumpAttemptsCapped(pending, syncRecord[1].id)
                     ELSE BumpAttempts(pending, syncRecord[1].id)
       /\ lastOpOk' = ok
  /\ lastFailed' = Some(syncRecord[1].id)
  /\ syncKind' = "none"
  /\ syncRecord' = None
  /\ syncMappings' = None
  /\ syncPc' = "wait"
  /\ countBeforeAdd' = CountAfterDrainStep(syncPc')
  /\ UNCHANGED <<startup, addCall, validateCall, lockVars,
                 irVars, restarts, lastPersist, hbVars, forceVars, plcVars,
                 sqlVars, timestamp_column, nextId, cfgMappings, dVars, pc,
                 recipe_data, fault_code, attempt, batchNo, removeFailures,
                 histVars>>

SyncIncrement == SyncIncrementStep(FALSE)

(* --------------------- insert_record, on its own ---------------------- *)
\* a caller passes a record to insert_record
InsertRecordCall ==
  /\ irPc \in {"idle", "done"}
  /\ irCalls < MaxCalls
  /\ irCalls' = irCalls + 1
  /\ \E v \in RecipeValues : irData' = Some([f \in {"TOTAL_WT"} |-> v])
  /\ irAttempt' = 0
  /\ irLog' = <<>>
  /\ irRet' = None
  /\ irPc' = "attempt"
  /\ UNCHANGED <<loopVars, startup, dbLockVars, validateCall, lockVars,
                 drainHist, restarts, lastPersist, hbVars, forceVars,
                 syncVars, plcVars, sqlVars, timestamp_column, cacheVars,
                 dVars, pc, recipe_data, fault_code, attempt, batchNo,
                 histVars>>

\* one iteration of the retry loop of insert_record: the attempt, and the
\* sleep of the generic except branch; the call returns when the attempt
\* says so
InsertRecordStep ==
  /\ irPc = "attempt"
  /\ \E o \in SqlOutcomes :
       LET r == InsertAttempt(irData[1], all_mappings, irAttempt, o)
           delay == IF r.kind = "transient" THEN RetryDelay(irAttempt)
                    ELSE None
       IN
       /\ sql_connected' = r.connected
       /\ table' = IF r.row THEN Append(table, batchNo) ELSE table
       /\ irLog' = Append(irLog,
                          [kind |-> r.kind,
                           executed |-> ExecutesInsert(irData[1],
                                                       all_mappings, o),
                           delay |-> delay])
       /\ IF r.ret = "retry"
          THEN /\ irAttempt' = irAttempt + 1
               /\ UNCHANGED <<irPc, irRet>>
          ELSE /\ irRet' = Some(r.ret = "True")
               /\ irPc' = "done"
               /\ UNCHANGED irAttempt
  /\ UNCHANGED <<loopVars, startup, dbLockVars, validateCall, lockVars,
                 drainHist, restarts, lastPersist, hbVars, forceVars,
                 syncVars, plcVars, timestamp_column, cacheVars, dVars, pc,
                 recipe_data, fault_code, attempt, batchNo, histVars, irData,
                 irCalls>>

InsertRecord == InsertRecordCall \/ InsertRecordStep

(* ------------------- PLCClient, statement by statement ---------------- *)
\* variant: the with statement does not wait for the lock
LockAlwaysFree(holder) == TRUE

\* threading.Lock: acquire returns only while no thread holds the lock
LockFree(holder) == holder = "none"

\* the driver method a call makes first once it holds the lock:
\* connect opens; disconnect closes if there is a driver;
\* a read or write opens unless _connected and _driver
\* (_ensure_connected_unlocked), else goes to the driver directly
FirstDriverCall(op, conn, drv) ==
  IF op = "connect" THEN "open"
  ELSE IF op = "disconnect" THEN (IF drv THEN "close" ELSE "release")
  ELSE IF conn /\ drv THEN op
  ELSE "open"

DriverCalls == {"open", "close", "read", "write"}
InDriverPc(c) ==
  CASE c = "open" -> "in_open"
    [] c = "close" -> "in_close"
    [] c = "read" -> "in_read"
    [] c = "write" -> "in_write"

\* thread t is executing a method of the driver handle
InDriver(t) ==
  /\ t \in DOMAIN plcCall
  /\ plcCall[t].pc \in {"in_open", "in_close", "in_read", "in_write"}

\* thread t is in a PLCClient method, at pc
CallAt(t, pcs) == t \in DOMAIN plcCall /\ plcCall[t].pc \in pcs

\* a thread calls a PLCClient method and reaches its with statement
PlcCall(t) ==
  /\ t \notin DOMAIN plcCall
  /\ \E op \in PlcMethods(t) :
       plcCall' = With(plcCall, t, [op |-> op, pc |-> "acquire"])
  /\ UNCHANGED <<dbLockVars, validateCall, plcLock, plc_driver,
                 plc_connected>>

\* with self._lock: the thread enters the block once the lock is free
PlcAcquire(t) ==
  /\ CallAt(t, {"acquire"})
  /\ LockFree(plcLock)
  /\ plcLock' = t
  /\ plcCall' = [plcCall EXCEPT
       ![t].pc = FirstDriverCall(plcCall[t].op, plc_connected, plc_driver)]
  /\ UNCHANGED <<dbLockVars, validateCall, plc_driver,
                 plc_connected>>

\* the thread calls into the driver: LogixDriver(...).open() (the handle
\* is assigned before open is called), close(), read() or write()
PlcDriverEnter(t) ==
  /\ CallAt(t, DriverCalls)
  /\ plcCall' = [plcCall EXCEPT ![t].pc = InDriverPc(plcCall[t].pc)]
  /\ plc_driver' = IF plcCall[t].pc = "open" THEN TRUE ELSE plc_driver
  /\ UNCHANGED <<dbLockVars, validateCall, plcLock, plc_connected>>

\* the driver method returns or raises:
\*   open   - returned: _connected = True, and a read or write goes on to
\*            the driver; raised: _connected = False and the call ends
\*   close  - either way _driver = None, _connected = False
\*   read, write - raised: _connected = False; the call ends either way
PlcDriverReturn(t) ==
  /\ InDriver(t)
  /\ \E raised \in BOOLEAN :
       LET c == plcCall[t] IN
       CASE c.pc = "in_open" ->
              /\ plc_connected' = ~raised
              /\ plcCall' = [plcCall EXCEPT ![t].pc =
                   IF raised \/ c.op = "connect" THEN "release" ELSE c.op]
              /\ UNCHANGED plc_driver
         [] c.pc = "in_close" ->
              /\ plc_connected' = FALSE
              /\ plc_driver' = FALSE
              /\ plcCall' = [plcCall EXCEPT ![t].pc = "release"]
         [] OTHER ->
              /\ plc_connected' = (plc_connected /\ ~raised)
              /\ plcCall' = [plcCall EXCEPT ![t].pc = "release"]
              /\ UNCHANGED plc_driver
  /\ UNCHANGED plcLock

\* the with block is left: the lock is released and the method returns
PlcRelease(t) ==
  /\ CallAt(t, {"release"})
  /\ plcLock' = "none"
  /\ plcCall' = Without(plcCall, t)
  /\ UNCHANGED <<dbLockVars, validateCall, plc_driver,
                 plc_connected>>

PlcClientStep ==
  /\ \E t \in PlcThreads :
       \/ PlcCall(t)
       \/ PlcAcquire(t)
       \/ PlcDriverEnter(t)
       \/ PlcDriverReturn(t)
       \/ PlcRelease(t)
  /\ UNCHANGED <<loopVars, startup, dbLockVars, validateCall, irVars,
                 drainHist, restarts, lastPersist, hbVars, forceVars,
                 syncVars, trigger, errorCodeTag, sqlVars, timestamp_column,
                 cacheVars, dVars, pc, recipe_data, fault_code, attempt,
                 batchNo, histVars>>

(* ----------------- add_record, statement by statement ---------------- *)
\* a thread calls add_record and reaches with self._db_lock
AddCallStart(t) ==
  /\ addCall[t].pc = "idle"
  /\ addCall[t].calls < MaxAdds
  /\ addCall' = [addCall EXCEPT ![t].pc = "acquire", ![t].calls = @ + 1]
  /\ UNCHANGED <<dbLock, cacheVars>>

\* with self._db_lock: entered once the lock is free
AddAcquire(t) ==
  /\ addCall[t].pc = "acquire"
  /\ LockFree(dbLock)
  /\ dbLock' = t
  /\ addCall' = [addCall EXCEPT ![t].pc = "insert"]
  /\ UNCHANGED cacheVars

\* INSERT INTO pending_records on the call's own connection: the row gets
\* the next AUTOINCREMENT id and stays in the open transaction; if the
\* statement raises the call returns False
AddInsert(t) ==
  /\ addCall[t].pc = "insert"
  /\ \E raised \in BOOLEAN :
       addCall' = [addCall EXCEPT
                     ![t].pc = IF raised THEN "release" ELSE "commit",
                     ![t].nid = nextId]
  /\ UNCHANGED <<dbLock, cacheVars>>

\* INSERT OR REPLACE INTO config, then commit: the transaction is stored
\* whole, or an exception leaves it uncommitted and the call returns False
AddCommit(t) ==
  /\ addCall[t].pc = "commit"
  /\ \E o \in AddRecordOutcomes \ {"insert_failed"} :
       LET c == addCall[t]
           r == add_record(pending, c.nid, cfgMappings, AddTag(t, c.calls),
                           AddData(t, c.calls), all_mappings, o)
       IN /\ pending' = r.pending
          /\ nextId' = r.nextId
          /\ cfgMappings' = r.cfgMappings
          /\ addCall' = [addCall EXCEPT
                ![t].pc = "release",
                ![t].oks = IF r.ret THEN @ \cup {c.calls} ELSE @]
  /\ UNCHANGED dbLock

\* the with block is left and add_record returns
AddRelease(t) ==
  /\ addCall[t].pc = "release"
  /\ dbLock' = "none"
  /\ addCall' = [addCall EXCEPT ![t].pc = "idle"]
  /\ UNCHANGED cacheVars

ConcurrentAdd ==
  /\ \E t \in DOMAIN addCall :
       \/ AddCallStart(t)
       \/ AddAcquire(t)
       \/ AddInsert(t)
       \/ AddCommit(t)
       \/ AddRelease(t)
  /\ UNCHANGED <<loopVars, startup, validateCall, lockVars, irVars, drainHist,
                 restarts, lastPersist, hbVars, forceVars, syncVars, plcVars,
                 sqlVars, timestamp_column, dVars, pc, recipe_data,
                 fault_code, attempt, batchNo, histVars>>

(* ------------- _sync_loop and stop_sync_thread, step by step ---------- *)
\* what the loop leaves unchanged outside the cache and the drain
LoopFrame ==
  UNCHANGED <<startup, addCall, validateCall, lockVars, irVars, restarts,
              lastPersist, hbVars, forceVars, plcVars, timestamp_column,
              dVars, pc, recipe_data, fault_code, batchNo, histVars>>

\* a step of the loop outside _sync_pending
LoopOnly ==
  /\ LoopFrame
  /\ UNCHANGED <<dbLock, drainHist, syncVars, sqlVars, cacheVars, attempt>>

\* variant: the lock taken to peek a record is kept while it is sent
LockKeptForInsert(next) == IF next = "insert" THEN "sync" ELSE "none"

\* the end of the with self._db_lock block of a cache operation the drain
\* calls, whatever _sync_pending does next: the lock is released before
\* the operation returns
LockAfterCacheOperation(next) == "none"

\* variant: after clear() the thread waits again
AfterClearWaiting == "wait"

\* _sync_loop after self._force_sync_event.clear(): the while condition
AfterClear == "while"

\* variant: stop_sync_thread leaves the force-sync event alone
ForceEventUntouched(event) == event

\* stop_sync_thread: if self._force_sync_event: self._force_sync_event.set()
ForceEventAfterStop(event) == IF event = None THEN None ELSE Some(TRUE)

\* while not self._stop_event.is_set(): the thread leaves the loop, or
\* calls _sync_pending
LoopWhile ==
  /\ loopPc = "while"
  /\ loopPc' = IF stop_event THEN "exited" ELSE "sync_pending"
  /\ UNCHANGED <<stop_event, force_sync_event, stopPc>>
  /\ LoopOnly

\* the syncPc values at which the next call of _sync_pending is a cache
\* operation (get_pending_count, get_mappings, get_oldest_record,
\* remove_record, increment_attempts)
CacheOperationPcs == {"wait", "mappings", "oldest", "remove", "increment"}

\* the thread enters the with self._db_lock block of the cache operation
\* it calls next; get_oldest_record is called only if the inner while
\* finds _stop_event clear
DrainAcquire ==
  /\ loopPc = "sync_pending"
  /\ syncPc \in CacheOperationPcs
  /\ syncPc = "oldest" => ~stop_event
  /\ LockFree(dbLock)
  /\ dbLock' = "sync"
  /\ UNCHANGED loopVars
  /\ LoopFrame
  /\ UNCHANGED <<drainHist, syncVars, sqlVars, cacheVars, attempt>>

\* the cache operation Operation runs inside the block and returns, the
\* lock released; when it ends _sync_pending the thread goes on to the wait
DrainLocked(Operation) ==
  /\ loopPc = "sync_pending"
  /\ dbLock = "sync"
  /\ Operation
  /\ dbLock' = LockAfterCacheOperation(syncPc')
  /\ loopPc' = IF syncPc' = "wait" THEN "wait" ELSE "sync_pending"
  /\ UNCHANGED <<stop_event, force_sync_event, stopPc>>

\* sql_client.insert_record for the record peeked
DrainInsert ==
  /\ loopPc = "sync_pending"
  /\ SyncInsert
  /\ UNCHANGED <<dbLock, loopVars>>

\* the inner while finds _stop_event set: _sync_pending returns
DrainBreak ==
  /\ loopPc = "sync_pending"
  /\ syncPc = "oldest"
  /\ dbLock # "sync"
  /\ stop_event
  /\ syncPc' = "wait"
  /\ syncMappings' = None
  /\ syncRecord' = None
  /\ countBeforeAdd' = CountAfterDrainStep("wait")
  /\ loopPc' = "wait"
  /\ UNCHANGED <<stop_event, force_sync_event, stopPc, dbLock, syncKind,
                 lastFailed, lastOpOk, removeFailures, sqlVars, cacheVars,
                 attempt>>
  /\ LoopFrame

\* the wait returns because its event is set: _force_sync_event.wait
\* returns True, or without that event _stop_event.wait returns
LoopWaitReturns ==
  /\ loopPc = "wait"
  /\ IF force_sync_event # None
     THEN force_sync_event = Some(TRUE) /\ loopPc' = "clear"
     ELSE stop_event /\ loopPc' = "while"
  /\ UNCHANGED <<stop_event, force_sync_event, stopPc>>
  /\ LoopOnly

\* the wait returns because sync_interval has elapsed with its event clear
LoopWaitTimeout ==
  /\ loopPc = "wait"
  /\ IF force_sync_event # None THEN force_sync_event = Some(FALSE)
     ELSE ~stop_event
  /\ loopPc' = "while"
  /\ UNCHANGED <<stop_event, force_sync_event, stopPc>>
  /\ LoopOnly

\* if triggered: self._force_sync_event.clear()
LoopClear ==
  /\ loopPc = "clear"
  /\ force_sync_event' = Some(FALSE)
  /\ loopPc' = AfterClear
  /\ UNCHANGED <<stop_event, stopPc>>
  /\ LoopOnly

\* the sync thread without the expiry of its wait
SyncLoopAwake ==
  \/ LoopWhile
  \/ DrainAcquire
  \/ DrainLocked(SyncCountStep)
  \/ DrainLocked(SyncGetMappings)
  \/ DrainLocked(SyncGetOldest)
  \/ DrainInsert
  \/ DrainLocked(SyncRemove)
  \/ DrainLocked(SyncIncrementStep(TRUE))
  \/ DrainBreak
  \/ LoopWaitReturns
  \/ LoopClear

\* the sync thread
SyncLoop == SyncLoopAwake \/ LoopWaitTimeout

\* SQLlogApp.request_force_sync: self._force_sync_event.set(), the event
\* the sync thread was started with
RequestForceSync ==
  /\ force_sync_event = Some(FALSE)
  /\ force_sync_event' = Some(TRUE)
  /\ UNCHANGED <<stop_event, loopPc, stopPc>>
  /\ LoopOnly

\* stop_sync_thread: self._stop_event.set()
StopSetStop ==
  /\ stopPc = "idle"
  /\ stop_event' = TRUE
  /\ stopPc' = "set_force"
  /\ UNCHANGED <<force_sync_event, loopPc>>
  /\ LoopOnly

\* stop_sync_thread: the force-sync event is set to wake the thread
StopSetForce ==
  /\ stopPc = "set_force"
  /\ force_sync_event' = ForceEventAfterStop(force_sync_event)
  /\ stopPc' = "join"
  /\ UNCHANGED <<stop_event, loopPc>>
  /\ LoopOnly

\* stop_sync_thread up to its join(timeout=5), which changes nothing
StopSyncThread == StopSetStop \/ StopSetForce

(* ------------------ validate_recipe_data, on its own ------------------ *)
\* the call validate_recipe_data(data, {"limits": limits}) and its result
\* (len(errors) == 0, errors); one call is examined per behaviour
ValidateRecipeData ==
  /\ validateCall = None
  /\ \E data \in ValidateData, limits \in ValidateLimits :
       validateCall' = Some([data |-> data, limits |-> limits,
                             valid |-> validate_recipe_data(data, limits),
                             errors |-> ErrorList(Len(LimitFields), data, limits)])
  /\ UNCHANGED <<loopVars, startup, dbLockVars, lockVars, irVars, drainHist,
                 restarts, lastPersist, hbVars, forceVars, syncVars, plcVars,
                 sqlVars, timestamp_column, cacheVars, dVars, pc, recipe_data,
                 fault_code, attempt, batchNo, histVars>>

(* ----------------------- initialize, on its own ----------------------- *)
\* SQLlogApp.initialize: _build_extra_mappings, then the
\* HandshakeStateMachine is constructed with config "mappings" and the
\* extra mappings; no path of it rejects a configuration
Initialize ==
  /\ startup # None
  /\ startup[1].extra_mappings = None
  /\ startup' = Some([startup[1] EXCEPT !.extra_mappings =
                        Some(build_extra_mappings(startup[1].extra_tags,
                                                  startup[1].bulk_names))])
  /\ UNCHANGED <<loopVars, dbLockVars, validateCall, lockVars, irVars,
                 drainHist, restarts, lastPersist, hbVars, forceVars,
                 syncVars, plcVars, sqlVars, timestamp_column, cacheVars,
                 dVars, pc, recipe_data, fault_code, attempt, batchNo,
                 histVars>>

\* _handle_trigger step 4 in the state machine so constructed:
\* all_mappings = {**self.mappings, **self.extra_mappings}
ComposeMappings ==
  /\ startup # None
  /\ startup[1].extra_mappings # None
  /\ startup[1].all_mappings = None
  /\ startup' = Some([startup[1] EXCEPT !.all_mappings =
                        Some(DictMerge(startup[1].mappings,
                                       startup[1].extra_mappings[1]))])
  /\ UNCHANGED <<loopVars, dbLockVars, validateCall, lockVars, irVars,
                 drainHist, restarts, lastPersist, hbVars, forceVars,
                 syncVars, plcVars, sqlVars, timestamp_column, cacheVars,
                 dVars, pc, recipe_data, fault_code, attempt, batchNo,
                 histVars>>

(* ------------------------- force_clear_fault -------------------------- *)
\* force_clear_fault is called (by an operator, from a thread of its own):
\* outside FAULT it does nothing
ForceClearCall ==
  /\ forcePc = "idle"
  /\ forceCalls < MaxForce
  /\ forceCalls' = forceCalls + 1
  /\ forcePc' = IF current_state = FAULT THEN "code" ELSE "idle"
  /\ UNCHANGED <<loopVars, startup, dbLockVars, validateCall, lockVars,
                 irVars, drainHist, restarts, lastPersist, hbVars, forceLog,
                 syncVars, plcVars, sqlVars, timestamp_column, cacheVars,
                 dVars, pc, recipe_data, fault_code, attempt, batchNo,
                 histVars>>

\* force_clear_fault: write_error_code(NONE)
ForceClearCode ==
  /\ forcePc = "code"
  /\ \E o \in PlcOutcomes :
       LET r == PlcAccess(plc_connected, o) IN
       /\ plc_connected' = r.connected
       /\ errorCodeTag' = IF r.ok THEN NONE ELSE errorCodeTag
       /\ forceLog' = Append(forceLog, Call("write_error_code", NONE, r.ok))
  /\ forcePc' = "trigger"
  /\ UNCHANGED <<loopVars, startup, dbLockVars, validateCall, lockVars,
                 irVars, drainHist, restarts, lastPersist, hbVars, forceCalls,
                 syncVars, trigger, sqlVars, timestamp_column, cacheVars,
                 dVars, pc, recipe_data, fault_code, attempt, batchNo,
                 histVars>>

\* force_clear_fault: write_trigger(IDLE)
ForceClearTrigger ==
  /\ forcePc = "trigger"
  /\ \E o \in PlcOutcomes :
       LET r == PlcAccess(plc_connected, o) IN
       /\ plc_connected' = r.connected
       /\ trigger' = IF r.ok THEN IDLE ELSE trigger
       /\ forceLog' = Append(forceLog, Call("write_trigger", IDLE, r.ok))
  /\ forcePc' = "finish"
  /\ UNCHANGED <<loopVars, startup, dbLockVars, validateCall, lockVars,
                 irVars, drainHist, restarts, lastPersist, hbVars, forceCalls,
                 syncVars, errorCodeTag, sqlVars, timestamp_column, cacheVars,
                 dVars, pc, recipe_data, fault_code, attempt, batchNo,
                 histVars>>

\* force_clear_fault: the fault descriptor is cleared, then _update_status
ForceClearFinish ==
  /\ forcePc = "finish"
  /\ current_state' = StateAfterForceClear(forceLog[Len(forceLog)].ok)
  /\ last_error' = NONE
  /\ fault_time' = None
  /\ forceLog' = <<>>
  /\ forcePc' = "idle"
  /\ UNCHANGED <<loopVars, startup, dbLockVars, validateCall, lockVars,
                 irVars, drainHist, restarts, lastPersist, hbVars, forceCalls,
                 syncVars, plcVars, sqlVars, timestamp_column, cacheVars,
                 sql_was_down, pc, recipe_data, fault_code, attempt, batchNo,
                 histVars>>

(* ------------------------ _heartbeat_loop ----------------------------- *)
\* increment_heartbeat's new value
HeartbeatNext(v) == (v + 1) % 32768

\* _heartbeat_loop: read_heartbeat; a value read replaces _current_value
HeartbeatRead ==
  /\ hbPc = "read"
  /\ \E o \in PlcOutcomes :
       LET r == PlcAccess(plc_connected, o) IN
       /\ plc_connected' = r.connected
       /\ current_value' = IF r.ok THEN heartbeatTag ELSE current_value
  /\ hbPc' = "increment"
  /\ UNCHANGED <<loopVars, startup, dbLockVars, validateCall, lockVars,
                 irVars, drainHist, restarts, lastPersist, forceVars,
                 syncVars, heartbeatTag, hbStart, hbWrites, hbStaleWrite,
                 trigger, errorCodeTag, sqlVars, timestamp_column, cacheVars,
                 dVars, pc, recipe_data, fault_code, attempt, batchNo,
                 histVars>>

\* _heartbeat_loop: increment_heartbeat(_current_value); on success
\* _current_value advances as well; then the loop waits for the interval
HeartbeatIncrement ==
  /\ hbPc = "increment"
  /\ \E o \in PlcOutcomes :
       LET r == PlcAccess(plc_connected, o) IN
       /\ plc_connected' = r.connected
       /\ heartbeatTag' = IF r.ok THEN HeartbeatNext(current_value)
                          ELSE heartbeatTag
       /\ current_value' = IF r.ok THEN HeartbeatNext(current_value)
                           ELSE current_value
       /\ hbWrites' = IF r.ok THEN hbWrites + 1 ELSE hbWrites
       /\ hbStaleWrite' = (hbStaleWrite \/ (r.ok /\ current_value # heartbeatTag))
  /\ hbPc' = "read"
  /\ UNCHANGED hbStart
  /\ UNCHANGED <<loopVars, startup, dbLockVars, validateCall, lockVars,
                 irVars, drainHist, restarts, lastPersist, forceVars,
                 syncVars, trigger, errorCodeTag, sqlVars, timestamp_column,
                 cacheVars, dVars, pc, recipe_data, fault_code, attempt,
                 batchNo, histVars>>

(* ----------------------------- the process ---------------------------- *)
\* The process is killed at any moment and started again: every object is
\* constructed anew (SQLlogApp.initialize), the threads start from the top
\* of their loops, and the cache file is opened as it was left
\* (CREATE TABLE IF NOT EXISTS keeps the rows and the AUTOINCREMENT counter).
\* The PLC tags and the remote table are outside the process.
Restart ==
  /\ restarts < MaxRestarts
  /\ restarts' = restarts + 1
  /\ syncKind' = "none"
  /\ countBeforeAdd' = None
  /\ lastOpOk' = TRUE
  /\ plc_connected' = FALSE
  /\ sql_connected' = FALSE
  /\ current_state' = IDLE
  /\ last_error' = NONE
  /\ fault_time' = None
  /\ sql_was_down' = FALSE
  /\ pc' = "wait"
  /\ recipe_data' = None
  /\ fault_code' = NONE
  /\ attempt' = [t \in {"poll", "sync"} |-> 0]
  /\ syncPc' = "wait"
  /\ syncMappings' = None
  /\ syncRecord' = None
  /\ current_value' = 0
  /\ hbPc' = "read"
  /\ forcePc' = "idle"
  /\ forceLog' = <<>>
  /\ tickStart' = IDLE
  /\ tickTrigger' = None
  /\ tickLog' = <<>>
  /\ insertKind' = "none"
  /\ UNCHANGED <<loopVars, startup, dbLockVars, validateCall, lockVars,
                 irVars, lastFailed, hbStart, hbWrites, hbStaleWrite, trigger,
                 errorCodeTag, heartbeatTag, table, timestamp_column,
                 cacheVars, batchNo, removeFailures, forceCalls, accepted,
                 lastPersist, completed>>

(* --------------------------- environment ------------------------------ *)
\* the PLC program requests logging: it writes 1 to the trigger tag
PLCSetTrigger ==
  /\ trigger # TRIGGERED
  /\ batchNo < MaxBatches
  /\ trigger' = TRIGGERED
  /\ UNCHANGED <<loopVars, startup, dbLockVars, validateCall, lockVars,
                 irVars, drainHist, restarts, lastPersist, hbVars, forceVars,
                 syncVars, errorCodeTag, plc_connected, sqlVars,
                 timestamp_column, cacheVars, dVars, pc, recipe_data,
                 fault_code, attempt, batchNo, histVars>>

\* the PLC program (or its operator) resets the trigger tag to 0
PLCResetTrigger ==
  /\ trigger # IDLE
  /\ trigger' = IDLE
  /\ UNCHANGED <<loopVars, startup, dbLockVars, validateCall, lockVars,
                 irVars, drainHist, restarts, lastPersist, hbVars, forceVars,
                 syncVars, errorCodeTag, plc_connected, sqlVars,
                 timestamp_column, cacheVars, dVars, pc, recipe_data,
                 fault_code, attempt, batchNo, histVars>>

Poll ==
  \/ PollReadTrigger
  \/ ReadRecipe
  \/ AckWrite
  \/ Validate
  \/ SqlInsert
  \/ AddRecord
  \/ Complete
  \/ FaultWriteCode
  \/ FaultWriteTrigger
  \/ FaultRecovery
  \/ UpdateStatus

Environment ==
  \/ PLCSetTrigger
  \/ PLCResetTrigger

ForceClear ==
  \/ ForceClearCall
  \/ ForceClearCode
  \/ ForceClearTrigger
  \/ ForceClearFinish

\* the heartbeat thread, up to MaxBeats successful writes
Heartbeat ==
  \/ HeartbeatRead
  \/ HeartbeatIncrement /\ hbWrites' <= MaxBeats

\* the drain cycles of the sync thread, one after the other, each cache
\* operation taken as one step (the loop around them is SyncLoop)
Sync ==
  \/ SyncCount /\ UNCHANGED <<dbLock, loopVars>>
  \/ SyncGetMappings /\ UNCHANGED <<dbLock, loopVars>>
  \/ SyncGetOldest /\ UNCHANGED <<dbLock, loopVars>>
  \/ SyncInsert /\ UNCHANGED <<dbLock, loopVars>>
  \/ SyncRemove /\ UNCHANGED <<dbLock, loopVars>>
  \/ SyncIncrement /\ UNCHANGED <<dbLock, loopVars>>

\* the three threads of the bridge and the PLC program
Next == Poll \/ Sync \/ Heartbeat \/ Environment

Spec == Init /\ [][Next]_vars

\* The coordinator, the sync thread and the PLC program alone.  The heartbeat
\* thread shares only PLCClient._connected with them, and what a gateway
\* operation returns does not depend on that flag (PlcAccess): leaving the
\* thread out changes nothing but the flag that get_status reads.
NextCore == Poll \/ Sync \/ Environment

SpecCore == Init /\ [][NextCore]_vars

\* The coordinator and the PLC program, with an operator who may call
\* force_clear_fault at any moment.  The sync thread touches neither D nor
\* the PLC gateway and is left out.
NextForce == Poll \/ Environment \/ ForceClear

SpecForce == Init /\ [][NextForce]_vars

\* The heartbeat service on its own, up to MaxWrites successful writes,
\* from any value of the tag.
NextPlcLock == PlcClientStep

SpecPlcLock == Init /\ [][NextPlcLock]_vars

\* The coordinator and the PLC program, the recipe UDT holding a number, a
\* null or a text in the field the limits are configured for.
PollAnyRecipe ==
  \/ PollReadTrigger
  \/ ReadRecipeOf(RecipeValues \cup {TextValue})
  \/ AckWrite
  \/ Validate
  \/ ValidateRaises
  \/ SqlInsert
  \/ AddRecord
  \/ Complete
  \/ FaultWriteCode
  \/ FaultWriteTrigger
  \/ FaultRecovery
  \/ UpdateStatus

NextAnyRecipe == PollAnyRecipe \/ Environment

SpecAnyRecipe == Init /\ [][NextAnyRecipe]_vars

\* Threads calling add_record at the same time on a queue that holds
\* 0..MaxQueued entries
NextAdd == ConcurrentAdd

SpecAdd == InitCache /\ [][NextAdd]_vars

\* The coordinator and the PLC program; SQLlogApp.run calls poll() every
\* poll interval for as long as the process lives, so the coordinator's
\* next step is always taken in the end.
NextTick == Poll \/ Environment

SpecTick == Init /\ [][NextTick]_vars

FairTick == SpecTick /\ WF_vars(Poll)

\* The sync thread with requests of a forced sync and a stop_sync_thread
\* call.
NextLoop == SyncLoop \/ RequestForceSync \/ StopSyncThread

SpecLoop == InitLoop /\ [][NextLoop]_vars

\* The same beside a thread that calls add_record.
NextDrainLock == NextLoop \/ ConcurrentAdd

SpecDrainLock == InitDrainLock /\ [][NextDrainLock]_vars

\* The threads are scheduled: the sync thread takes its next step unless it
\* is in its wait with the event clear, and stop_sync_thread runs on.
FairLoop ==
  SpecLoop /\ WF_vars(SyncLoopAwake) /\ WF_vars(StopSyncThread)

\* Time passes as well: a wait whose event stays clear expires.
FairDrain == SpecLoop /\ WF_vars(SyncLoop)

NextConfig == Initialize \/ ComposeMappings

SpecConfig == InitConfig /\ [][NextConfig]_vars

NextValidate == ValidateRecipeData

SpecValidate == Init /\ [][NextValidate]_vars

NextHeartbeat ==
  \/ HeartbeatRead
  \/ HeartbeatIncrement /\ hbWrites' <= MaxWrites

SpecHeartbeat == InitHeartbeat /\ [][NextHeartbeat]_vars

\* The writer on its own: insert_record calls of one caller.
NextInsert == InsertRecord

SpecInsert == Init /\ [][NextInsert]_vars

\* The cache on its own: the add_record of a tick and the sync thread, from
\* a queue of up to MaxQueued entries.
NextCache == AddRecord \/ Sync

SpecCache == InitCache /\ [][NextCache]_vars

\* The coordinator, the sync thread and the PLC program, in a process that
\* may be killed and started again.
NextRestart == NextCore \/ Restart

SpecRestart == Init /\ [][NextRestart]_vars

(* ====================================================================== *)
(*                        Properties of the bridge                        *)
(* ====================================================================== *)
\* the tick has made all its calls: only its closing _update_status is left
TickEnd == pc = "update_status"

\* the tick read trigger = 1 while D was IDLE: it runs a batch sequence
BatchTick == tickStart = IDLE /\ tickTrigger = Some(TRIGGERED)

\* the calls of the tick's log with a given name
CallsOf(op) == SelectSeq(tickLog, LAMBDA c : c.op = op)

\* the trigger values the tick tried to write, in order
TriggerWrites ==
  [i \in 1..Len(CallsOf("write_trigger")) |-> CallsOf("write_trigger")[i].arg]

\* the tick made a call op that succeeded / failed
Succeeded(op) == \E i \in 1..Len(tickLog) : tickLog[i].op = op /\ tickLog[i].ok
Failed(op) == \E i \in 1..Len(tickLog) : tickLog[i].op = op /\ ~tickLog[i].ok

\* the tick tried write_trigger(v), and it succeeded / failed
WroteTrigger(v, ok) ==
  \E i \in 1..Len(tickLog) : tickLog[i] = Call("write_trigger", v, ok)

\* the remote table holds a row of batch b; C holds a pending entry of it
InTable(b) == \E i \in 1..Len(table) : table[i] = b
InCache(b) == \E i \in 1..Len(pending) : pending[i].batch = b

\* the record of the tick is persisted: insert_record or add_record
\* returned success
Persisted == Succeeded("insert_record") \/ Succeeded("add_record")

(* ------------------------------- C1 ----------------------------------- *)
\* C1 as stated: whenever the completion write of 0 was attempted for a
\* batch, that batch's record is in the remote table or in the local cache.
C1_DurableAsStated ==
  \A b \in completed : InTable(b) \/ InCache(b)

\* C1, amended: the completion write of 0 is attempted for a batch only
\* after insert_record or add_record returned success for it, and the record
\* is then in the remote table or in the cache, unless its column list is
\* empty (insert_record answers success for it without inserting a row).
C1_AcceptedBeforeCompletion ==
  \A b \in completed :
    \E a \in accepted :
      /\ a.batch = b
      /\ (InTable(b) \/ InCache(b) \/ a.empty)

\* a batch was completed out of the cache and has been drained to the table
C1_Witness ==
  \E b \in completed :
    /\ \E a \in accepted : a.batch = b /\ a.by = "cache" /\ ~a.empty
    /\ InTable(b)
    /\ ~InCache(b)

(* ------------------------------- C2 ----------------------------------- *)
\* exactly one of three
ExactlyOne(a, b, c) == (a /\ ~b /\ ~c) \/ (~a /\ b /\ ~c) \/ (~a /\ ~b /\ c)

HappyTick ==
  /\ TickEnd /\ BatchTick
  /\ Succeeded("read_all_recipe_data")
  /\ WroteTrigger(ACKNOWLEDGE, TRUE)
  /\ Succeeded("validate_recipe_data")
  /\ Succeeded("insert_record")
  /\ WroteTrigger(IDLE, TRUE)

\* what the tick's calls are on the happy path, and the state D ends in
HappyCalls ==
  /\ Len(CallsOf("read_all_recipe_data")) = 1
  /\ TriggerWrites = <<ACKNOWLEDGE, IDLE>>
  /\ Len(CallsOf("insert_record")) = 1
  /\ Len(CallsOf("add_record")) = 0
  /\ Len(CallsOf("write_error_code")) = 0
  /\ current_state = IDLE
  /\ last_error = NONE

\* C3 as stated: a batch tick in which the recipe read, both trigger writes,
\* validation and insert_record succeed reads the recipe once, writes the
\* trigger twice (2 then 0), calls insert_record once and add_record never,
\* and ends with D in IDLE and status CONNECTED.
C3_HappyPathAsStated ==
  HappyTick => HappyCalls /\ get_status = CONNECTED

\* C3, amended: such a tick reads the recipe once, writes the trigger twice
\* (2 then 0), calls insert_record once and add_record never, and ends with
\* D in IDLE and _sql_was_down clear; the status is CONNECTED if the gateway
\* still reports the PLC connected, and PLC_OFFLINE if a heartbeat access
\* has failed since the completion write.
C3_HappyPath ==
  HappyTick =>
    /\ HappyCalls
    /\ ~sql_was_down
    /\ get_status = (IF plc_connected THEN CONNECTED ELSE PLC_OFFLINE)

\* the happy path of a second batch, the first having gone to the cache,
\* with the gateway marked disconnected by the heartbeat thread meanwhile
C3_Witness ==
  /\ HappyTick
  /\ batchNo = 2
  /\ \E a \in accepted : a.batch = 1 /\ a.by = "cache"
  /\ ~plc_connected

(* ------------------------------- C4 ----------------------------------- *)
\* the tick's insert_record failed transiently and its add_record succeeded
CachedTick ==
  /\ TickEnd /\ BatchTick
  /\ insertKind = "transient"
  /\ Succeeded("add_record")

\* C4 as stated: after a transient insert failure and a successful enqueue
\* the tick ends in IDLE with status SQL_OFFLINE.
C4_StatusAsStated ==
  CachedTick => current_state = IDLE /\ get_status = SQL_OFFLINE

\* C4, amended: after a transient insert failure D calls add_record once,
\* with the tick's record and the union mapping; if it succeeds D tries the
\* completion write (2 then 0 are the trigger writes of the tick), ends the
\* tick in IDLE, not FAULT, with _sql_was_down set; the status is
\* SQL_OFFLINE if the gateway reports the PLC connected, PLC_OFFLINE if not.
C4_CacheFallback ==
  /\ (TickEnd /\ BatchTick /\ insertKind = "transient" =>
        Len(CallsOf("add_record")) = 1)
  /\ (CachedTick =>
        /\ TriggerWrites = <<ACKNOWLEDGE, IDLE>>
        /\ current_state = IDLE
        /\ last_error = NONE
        /\ sql_was_down
        /\ get_status = (IF plc_connected THEN SQL_OFFLINE ELSE PLC_OFFLINE)
        /\ cfgMappings = Some(all_mappings)
        /\ \/ \E i \in 1..Len(pending) :
                 /\ pending[i].batch = batchNo
                 /\ pending[i].data = recipe_data[1]
           \/ syncPc # "wait"
           \/ InTable(batchNo) \/ Columns(recipe_data[1], all_mappings) = {})

\* a cached tick whose completion write failed and left the gateway
\* disconnected
C4_Witness ==
  /\ CachedTick
  /\ WroteTrigger(IDLE, FALSE)
  /\ ~plc_connected
  /\ InCache(batchNo)

(* ------------------------------- C5 ----------------------------------- *)
\* C5 as stated: when insert_record meets an integrity error the tick ends
\* with D in FAULT, last_error = SQL_AND_CACHE_FAILED, no add_record call
\* and no completion write of 0.
C5_IntegrityFaults ==
  TickEnd /\ BatchTick /\ insertKind = "integrity" =>
    /\ current_state = FAULT
    /\ last_error = SQL_AND_CACHE_FAILED
    /\ Len(CallsOf("add_record")) = 0
    /\ ~\E ok \in BOOLEAN : WroteTrigger(IDLE, ok)

\* what the code does instead: the integrity-rejected record is enqueued in
\* C, the completion write of 0 is made, and the tick ends in IDLE
C5_Witness ==
  /\ TickEnd /\ BatchTick
  /\ insertKind = "integrity"
  /\ Succeeded("add_record")
  /\ InCache(batchNo)
  /\ WroteTrigger(IDLE, TRUE)
  /\ current_state = IDLE
  /\ last_error = NONE

(* ------------------------------- C6 ----------------------------------- *)
\* the record of the tick has a field outside its configured bounds
OutOfBounds ==
  /\ recipe_data # None
  /\ \E f \in DOMAIN validation \cap DOMAIN recipe_data[1] :
       LET v == recipe_data[1][f]
           lim == validation[f]
       IN /\ v # None
          /\ \/ lim.min # None /\ v[1] < lim.min[1]
             \/ lim.max # None /\ v[1] > lim.max[1]

\* D ended the tick in FAULT with kind k
FaultedWith(k) == current_state = FAULT /\ last_error = k

\* C6: the fault kind names the failed step: recipe read -> 1, acknowledge
\* write -> 4, out-of-bounds field -> 2, insert_record and add_record both
\* failed -> 3; the tick ends in FAULT with last_error that kind.
C6_FaultKinds ==
  TickEnd /\ BatchTick =>
    /\ (Failed("read_all_recipe_data") => FaultedWith(PLC_READ_FAILED))
    /\ (WroteTrigger(ACKNOWLEDGE, FALSE) => FaultedWith(PLC_WRITE_FAILED))
    /\ (WroteTrigger(ACKNOWLEDGE, TRUE) /\ OutOfBounds =>
          FaultedWith(VALIDATION_FAILED))
    /\ (Failed("insert_record") /\ Failed("add_record") =>
          FaultedWith(SQL_AND_CACHE_FAILED))

\* a tick that faulted because both the insert and the enqueue failed
C6_Witness ==
  /\ TickEnd /\ BatchTick
  /\ Failed("insert_record") /\ Failed("add_record")
  /\ FaultedWith(SQL_AND_CACHE_FAILED)

(* ------------------------------- C7 ----------------------------------- *)
\* the batch sequence failed before the persist step
FailedBeforePersist ==
  \/ Failed("read_all_recipe_data")
  \/ WroteTrigger(ACKNOWLEDGE, FALSE)
  \/ Failed("validate_recipe_data")

\* C7: a batch sequence that faults before the persist step calls neither
\* insert_record nor add_record; the batch gets no row and no pending entry.
C7_NoPersistAfterEarlyFault ==
  BatchTick /\ FailedBeforePersist =>
    /\ Len(CallsOf("insert_record")) = 0
    /\ Len(CallsOf("add_record")) = 0
    /\ ~InTable(batchNo)
    /\ ~InCache(batchNo)
    /\ ~\E a \in accepted : a.batch = batchNo
    /\ pc \in {"fault_code", "fault_trigger", "update_status"}

\* a tick that ended in FAULT on a validation failure
C7_Witness ==
  /\ TickEnd /\ BatchTick
  /\ Failed("validate_recipe_data")
  /\ FaultedWith(VALIDATION_FAILED)

(* ------------------------------- C8 ----------------------------------- *)
\* C8: when the record was persisted and the completion write of 0 fails,
\* the tick ends in IDLE with last_error = NONE, and neither the error code
\* nor 99 is written.
C8_CompletionFailureNoFault ==
  TickEnd /\ BatchTick /\ Persisted /\ WroteTrigger(IDLE, FALSE) =>
    /\ current_state = IDLE
    /\ last_error = NONE
    /\ fault_time = None
    /\ Len(CallsOf("write_error_code")) = 0
    /\ TriggerWrites = <<ACKNOWLEDGE, IDLE>>

\* a tick with the record in the remote table and the completion write failed
C8_Witness ==
  /\ TickEnd /\ BatchTick
  /\ Succeeded("insert_record")
  /\ WroteTrigger(IDLE, FALSE)
  /\ trigger = ACKNOWLEDGE

(* ------------------------------- C9 ----------------------------------- *)
\* C9: a tick in which D enters FAULT with kind k ends with the calls
\* write_error_code(k), write_trigger(99), in that order and as its last
\* two calls, with current_state = FAULT and last_error = k, whether or not
\* the writes succeeded; it writes neither 0 nor 2 after them.
C9_FaultEntry ==
  /\ (pc \in {"fault_code", "fault_trigger"} => last_error = fault_code)
  /\ (TickEnd /\ fault_code # NONE =>
        LET n == Len(tickLog) IN
        /\ n >= 2
        /\ tickLog[n - 1].op = "write_error_code"
        /\ tickLog[n - 1].arg = fault_code
        /\ tickLog[n].op = "write_trigger"
        /\ tickLog[n].arg = FAULT
        /\ Len(CallsOf("write_error_code")) = 1
        /\ current_state = FAULT
        /\ last_error = fault_code
        /\ fault_time # None)
  /\ (TickEnd /\ tickStart = IDLE /\ current_state = FAULT => fault_code # NONE)

\* a tick that entered FAULT with both PLC writes failing
C9_Witness ==
  /\ TickEnd
  /\ fault_code = VALIDATION_FAILED
  /\ current_state = FAULT
  /\ Failed("write_error_code")
  /\ WroteTrigger(FAULT, FALSE)

(* ------------------------------- C10 ---------------------------------- *)
\* the tick began in FAULT and read trigger = 0
RecoveryTick == tickStart = FAULT /\ tickTrigger = Some(IDLE)

\* C10: a tick that reads trigger = 0 while D is in FAULT tries
\* write_error_code(0) and ends with current_state = IDLE, last_error = NONE
\* and no fault time, whether or not the write succeeded.
C10_FaultRecovery ==
  TickEnd /\ RecoveryTick =>
    /\ Len(tickLog) = 1
    /\ tickLog[1].op = "write_error_code"
    /\ tickLog[1].arg = NONE
    /\ current_state = IDLE
    /\ last_error = NONE
    /\ fault_time = None

\* a recovery whose write of error code 0 failed
C10_Witness ==
  /\ TickEnd /\ RecoveryTick
  /\ Failed("write_error_code")
  /\ current_state = IDLE
  /\ errorCodeTag # NONE

(* ------------------------------- C11 ---------------------------------- *)
\* the tick began in FAULT and read a trigger other than 0, or none at all
StayFaultTick == tickStart = FAULT /\ tickTrigger # Some(IDLE)

\* the step of poll() that reads the trigger while D is in FAULT and does
\* not read 0
StayFaultRead ==
  /\ pc = "wait" /\ pc' # "wait"
  /\ current_state = FAULT
  /\ tickTrigger' # Some(IDLE)

\* C11: while D is in FAULT, a poll() that reads a trigger other than 0 or
\* fails to read it leaves current_state = FAULT and last_error unchanged,
\* writes nothing to the PLC, reads no recipe and calls neither the database
\* writer nor the cache; a trigger of 1 seen in FAULT starts no batch
\* sequence.
C11_FaultStays ==
  /\ [](TickEnd /\ StayFaultTick =>
          /\ tickLog = <<>>
          /\ recipe_data = None
          /\ insertKind = "none"
          /\ current_state = FAULT
          /\ last_error # NONE)
  /\ [][StayFaultRead =>
          /\ pc' = "update_status"
          /\ UNCHANGED <<current_state, last_error, fault_time, batchNo,
                         trigger, errorCodeTag, table, pending, tickLog>>]_vars

\* a tick that saw trigger = 1 while D was in FAULT
C11_Witness ==
  /\ TickEnd
  /\ tickStart = FAULT
  /\ tickTrigger = Some(TRIGGERED)
  /\ current_state = FAULT

(* ------------------------------- C12 ---------------------------------- *)
\* force_clear_fault is called
ForceCalled == forceCalls' = forceCalls + 1

\* force_clear_fault returns from its FAULT branch
ForceReturns == forcePc = "finish" /\ forcePc' = "idle"

\* C12: force_clear_fault called while D is in FAULT tries
\* write_error_code(0) and write_trigger(0) and leaves D in IDLE with
\* last_error = NONE, whatever the trigger tag holds and whether or not the
\* writes succeed; called while D is not in FAULT it changes no state and
\* writes nothing to the PLC.
C12_ForceClear ==
  [][/\ ForceCalled /\ current_state = FAULT => forcePc' = "code"
     /\ ForceCalled /\ current_state # FAULT =>
          /\ forcePc' = "idle"
          /\ UNCHANGED <<plcVars, dVars, sqlVars, cacheVars, forceLog>>
     /\ ForceReturns =>
          /\ Len(forceLog) = 2
          /\ forceLog[1].op = "write_error_code" /\ forceLog[1].arg = NONE
          /\ forceLog[2].op = "write_trigger" /\ forceLog[2].arg = IDLE
          /\ current_state' = IDLE
          /\ last_error' = NONE
          /\ fault_time' = None]_vars

\* a forced clear about to return with both PLC writes failed and the
\* trigger tag still asking for a batch
C12_Witness ==
  /\ forcePc = "finish"
  /\ ~forceLog[1].ok /\ ~forceLog[2].ok
  /\ trigger = TRIGGERED
  /\ current_state = FAULT

(* ------------------------------- C13 ---------------------------------- *)
\* the status the stated priority gives: FAULT, else PLC_OFFLINE when the
\* gateway reports disconnected, else SQL_OFFLINE when the latest
\* persistence attempt went to the cache, else CONNECTED
StatedStatus ==
  IF current_state = FAULT THEN STATUS_FAULT
  ELSE IF ~plc_connected THEN PLC_OFFLINE
  ELSE IF lastPersist = "C" THEN SQL_OFFLINE
  ELSE CONNECTED

\* C13 as stated, at the moments poll() reports the status: get_status
\* returns FAULT if D is in FAULT; otherwise PLC_OFFLINE if the gateway
\* reports disconnected; otherwise SQL_OFFLINE if the last persistence went
\* to the cache; otherwise CONNECTED.
C13_StatusPriority ==
  TickEnd => get_status = StatedStatus

\* what the code does instead: the last record went to the cache, a later
\* batch sequence faulted before its persist step, and after the recovery
\* the status reported is CONNECTED
C13_Witness ==
  /\ TickEnd /\ RecoveryTick
  /\ lastPersist = "C"
  /\ InCache(1)
  /\ plc_connected
  /\ current_state = IDLE
  /\ get_status = CONNECTED


(* ------------------------------- C14 ---------------------------------- *)
\* a step in which get_oldest_record returns to the drain loop
GetOldestReturns == syncPc = "oldest" /\ restarts' = restarts

\* the pending rows carry strictly increasing ids in the order they were
\* enqueued, all below the AUTOINCREMENT counter
IdsInEnqueueOrder ==
  /\ \A i, j \in 1..Len(pending) : i < j => pending[i].id < pending[j].id
  /\ \A i \in 1..Len(pending) : pending[i].id < nextId

\* a step never reorders the queue: it removes the head, or it keeps every
\* entry at its place (a new one is appended behind them)
QueueOrderKept ==
  \/ pending # <<>> /\ pending' = Tail(pending)
  \/ /\ Len(pending') >= Len(pending)
     /\ \A k \in 1..Len(pending) : pending'[k].id = pending[k].id

\* C14 as stated: get_oldest_record returns the entry with the smallest id,
\* and None if and only if the queue is empty; entries leave in the order
\* they were enqueued.
C14_FifoAsStated ==
  /\ []IdsInEnqueueOrder
  /\ [][QueueOrderKept]_vars
  /\ [][GetOldestReturns =>
          /\ syncRecord' = None <=> pending = <<>>
          /\ syncRecord' # None => syncRecord'[1] = pending[1]]_vars

\* C14, amended: after any sequence of add_record, remove_record,
\* increment_attempts, drain cycles and restarts, whenever get_oldest_record
\* returns a record it is the pending entry with the smallest id, which is
\* the one enqueued first; it returns None when the queue is empty and also
\* when its query fails. Entries leave the queue head first, and no step
\* moves an entry behind a younger one.
C14_Fifo ==
  /\ []IdsInEnqueueOrder
  /\ [][QueueOrderKept]_vars
  /\ [][GetOldestReturns =>
          /\ pending = <<>> => syncRecord' = None
          /\ syncRecord' # None =>
               /\ syncRecord'[1] = pending[1]
               /\ \A k \in 1..Len(pending) :
                    syncRecord'[1].id <= pending[k].id]_vars

\* after a restart, with two entries pending and a failed drain attempt on
\* the older one behind it, get_oldest_record has returned the older one
C14_Witness ==
  /\ restarts = 1
  /\ Len(pending) = 2
  /\ pending[1].attempts > 0
  /\ syncPc = "insert"
  /\ syncRecord = Some(pending[1])


(* ------------------------------- C15 ---------------------------------- *)
\* a step in which add_record returns ok to the coordinator
AddRecordReturns(ok) ==
  /\ pc = "add_record"
  /\ tickLog' = Append(tickLog, Call("add_record", 0, ok))

C16_SnapshotStored == pending # <<>> => cfgMappings = Some(all_mappings)

\* the process has been started again over a cache file that holds a
\* pending entry, and the drain has read the snapshot back
C16_Witness ==
  /\ restarts = 1
  /\ pending # <<>>
  /\ syncPc = "oldest"
  /\ syncMappings = cfgMappings


(* ------------------------------- C17 ---------------------------------- *)
\* the step of the drain that follows a transient failure of B on the
\* entry it sent: increment_attempts and the break
AfterTransientFailure ==
  /\ syncPc = "increment"
  /\ syncKind = "transient"
  /\ syncPc' # "increment"
  /\ restarts' = restarts

\* the entry sent is the head of the queue, it stays there, and no other
\* entry is touched
HeadStays ==
  /\ pending # <<>>
  /\ syncRecord[1].id = pending[1].id
  /\ Len(pending') = Len(pending)
  /\ pending'[1].id = pending[1].id
  /\ \A k \in 2..Len(pending) : pending'[k] = pending[k]

\* whatever the drain sends to B after a refusal is the refused entry
RetriesFailedFirst ==
  syncPc = "insert" /\ lastFailed # None => syncRecord[1].id = lastFailed[1]

\* C17 as stated: after a transient failure of B on the oldest entry, the
\* entry's attempts counter is one higher, the entry stays at the head, the
\* cycle ends without sending a younger entry, and the next cycle sends
\* that entry first.
C17_TransientAsStated ==
  /\ []RetriesFailedFirst
  /\ [][AfterTransientFailure =>
          /\ HeadStays
          /\ pending'[1].attempts = pending[1].attempts + 1
          /\ syncPc' = "wait"]_vars

\* C17, amended: after a transient failure of B on the oldest entry the
\* drain calls increment_attempts and ends the cycle: the entry stays at
\* the head, no younger entry is sent in that cycle, and the next entry a
\* drain cycle sends to B is that same one. Its attempts counter is one
\* higher when increment_attempts succeeds and unchanged when it fails.
C17_Transient ==
  /\ []RetriesFailedFirst
  /\ [][AfterTransientFailure =>
          /\ HeadStays
          /\ pending'[1].attempts - pending[1].attempts \in {0, 1}
          /\ lastOpOk' => pending'[1].attempts = pending[1].attempts + 1
          /\ syncPc' = "wait"
          /\ lastFailed' = Some(pending[1].id)]_vars

\* B fails transiently for the second cycle in a row on the head of a queue
\* of three, the first failure counted
C17_Witness ==
  /\ syncPc = "increment"
  /\ syncKind = "transient"
  /\ Len(pending) = 3
  /\ lastFailed = Some(pending[1].id)
  /\ pending[1].attempts = 1
  /\ syncRecord = Some(pending[1])

(* ------------------------------- C18 ---------------------------------- *)
\* the step of the drain that follows an integrity error of B on the entry
\* it sent
AfterIntegrityError ==
  /\ syncPc \in {"remove", "increment"}
  /\ syncKind = "integrity"
  /\ syncPc' # syncPc
  /\ restarts' = restarts

\* C18: when B rejects the oldest entry with an integrity error the drain
\* removes the entry from the cache and the same cycle goes on with the
\* next-oldest entry.
C18_IntegrityDropped ==
  [][AfterIntegrityError =>
       /\ \A k \in 1..Len(pending') : pending'[k].id # syncRecord[1].id
       /\ syncPc' = "oldest"]_vars

\* B has accepted entry 1 and rejected entry 2 with an integrity error:
\* entry 2 stays the head of the queue, the drain is about to count an
\* attempt for it and to end the cycle, and entry 3 has not been sent
C18_Witness ==
  /\ syncPc = "increment"
  /\ syncKind = "integrity"
  /\ syncRecord = Some(pending[1])
  /\ table = <<1>>
  /\ Len(pending) = 2
  /\ pending[1].id = 2
  /\ pending[2].id = 3 /\ pending[2].attempts = 0

(* ------------------------------- C19 ---------------------------------- *)
\* a step that ends a drain cycle other than by the break after a refusal
\* of B (B has taken every entry the cycle sent), the cycle having begun
\* after add_record stored an entry
HealthyCycleEnds ==
  /\ syncPc \notin {"wait", "increment"}
  /\ syncPc' = "wait"
  /\ restarts' = restarts
  /\ countBeforeAdd # None

InBoth(b) == InTable(b) /\ InCache(b)

\* the drain has inserted the entry of batch b into B and is about to call
\* remove_record for it
DrainRemoving(b) ==
  syncPc = "remove" /\ syncRecord # None /\ syncRecord[1].batch = b

Rows(b) == Cardinality({i \in 1..Len(table) : table[i] = b})

Returned == irPc = "done"

\* every attempt of the call so far failed transiently
AllTransient == \A i \in 1..Len(irLog) : irLog[i].kind = "transient"

\* C22: an insert_record call makes at most max_retries attempts and then
\* returns; a delay is taken only after an attempt that another attempt
\* follows; a call whose attempts all fail transiently makes exactly
\* max_retries of them, sleeps the backoff after each but the last, and
\* returns failure.
C22_BoundedRetries ==
  /\ Len(irLog) <= max_retries
  /\ irPc = "attempt" => Len(irLog) = irAttempt /\ irAttempt < max_retries
  /\ \A i \in 1..Len(irLog) :
       irLog[i].delay # None => i < Len(irLog) \/ irPc = "attempt"
  /\ Returned /\ AllTransient =>
       /\ Len(irLog) = max_retries
       /\ irRet = Some(FALSE)
       /\ \A i \in 1..(max_retries - 1) :
            irLog[i].delay = Some(calculate_backoff(i - 1))
       /\ irLog[max_retries].delay = None

\* a call has returned failure after max_retries transient failures, the
\* INSERT executed in the last of them
C22_Witness ==
  /\ Returned
  /\ AllTransient
  /\ Len(irLog) = max_retries
  /\ irLog[max_retries].executed
  /\ irRet = Some(FALSE)

(* ------------------------------- C23 ---------------------------------- *)
\* C23: an attempt that meets an integrity error is the last of its call:
\* the call returns failure at once, with no delay, however many attempts
\* remain.
C23_IntegrityTerminal ==
  \A i \in 1..Len(irLog) :
    irLog[i].kind = "integrity" =>
      /\ i = Len(irLog)
      /\ Returned
      /\ irRet = Some(FALSE)
      /\ irLog[i].delay = None

\* the first attempt of a call met an integrity error and the call has
\* returned failure with two attempts left
C23_Witness ==
  /\ Returned
  /\ Len(irLog) = 1
  /\ irLog[1].kind = "integrity"
  /\ irRet = Some(FALSE)

(* ------------------------------- C24 ---------------------------------- *)
\* the record passed to insert_record has no mapped non-null field and no
\* timestamp column is configured
NothingToInsert == irData # None /\ Columns(irData[1], all_mappings) = {}

\* C24: for a record with nothing to insert, insert_record returns ok and
\* executes no INSERT statement, whether or not the database is reachable.
C24_EmptyRecordOk ==
  /\ NothingToInsert => \A i \in 1..Len(irLog) : ~irLog[i].executed
  /\ Returned /\ NothingToInsert => irRet = Some(TRUE)

\* a call with nothing to insert has returned failure: the database was
\* not reachable in any of its max_retries attempts
C24_Witness ==
  /\ Returned
  /\ NothingToInsert
  /\ irRet = Some(FALSE)
  /\ Len(irLog) = max_retries
  /\ \A i \in 1..Len(irLog) : ~irLog[i].executed

(* ------------------------- heartbeat counter -------------------------- *)
\* C25: with no other writer of the tag, after n heartbeat steps whose write
\* succeeded the tag holds (v0 + n) mod 32768, v0 being the value the tag
\* had when the service started, whether or not the reads succeeded; the
\* values written stay in 0..32767.
C25_CounterFromStart ==
  /\ heartbeatTag = (hbStart + hbWrites) % 32768
  /\ heartbeatTag \in 0..32767

\* the service started on a tag that was not 0, its first read failed and
\* the write that followed succeeded: the tag holds 1, not v0 + 1
C25_Witness ==
  /\ hbStart = 5
  /\ hbWrites = 1
  /\ hbStaleWrite
  /\ heartbeatTag = 1

(* ----------------------- the PLC driver's lock ------------------------ *)
\* C26: no two threads are inside a method of the PLC driver handle (open,
\* read, write, close) at the same time, and a thread that is inside one, or
\* about to call one, holds PLCClient's lock.
C26_DriverSerialised ==
  /\ \A t, u \in PlcThreads : InDriver(t) /\ InDriver(u) => t = u
  /\ \A t \in PlcThreads :
       InDriver(t) \/ CallAt(t, DriverCalls) => plcLock = t

\* the heartbeat is inside the driver's write while the coordinator and the
\* stopping thread wait for the lock
C26_Witness ==
  /\ CallAt("heartbeat", {"in_write"})
  /\ CallAt("poll", {"acquire"})
  /\ CallAt("main", {"acquire"})
  /\ plcCall["main"].op = "disconnect"

(* ---------------------- the connection to B, shared ------------------- *)
\* thread t has entered insert_record's retry loop, has made at least one
\* attempt and has not returned
InsideInsertRecord(t) ==
  /\ attempt[t] > 0
  /\ IF t = "poll" THEN pc = "insert" ELSE syncPc = "insert"

\* C27: the coordinator and the sync thread are never inside insert_record
\* on the one SQLClient at the same time.
C27_InsertSerialised ==
  ~(InsideInsertRecord("poll") /\ InsideInsertRecord("sync"))

\* both threads are between two attempts of their insert_record calls, and
\* the last failure has marked the connection they share as down
C27_Witness ==
  /\ InsideInsertRecord("poll")
  /\ InsideInsertRecord("sync")
  /\ ~sql_connected
  /\ syncRecord[1].batch # batchNo

(* --------------------------- field limits ----------------------------- *)
\* the fields of a call that are checked: limits configured, present in the
\* record, not null
CheckedFields(c) ==
  {f \in DOMAIN c.limits : f \in DOMAIN c.data /\ c.data[f] # None}

\* min <= value <= max, a bound that is not configured imposing nothing
WithinLimits(c, f) ==
  /\ c.limits[f].min # None => c.limits[f].min[1] <= c.data[f][1]
  /\ c.limits[f].max # None => c.data[f][1] <= c.limits[f].max[1]

\* the number of bounds of checked field f that its value violates
ViolatedBounds(c, f) ==
  (IF c.limits[f].min # None /\ c.data[f][1] < c.limits[f].min[1] THEN 1 ELSE 0)
  + (IF c.limits[f].max # None /\ c.data[f][1] > c.limits[f].max[1] THEN 1 ELSE 0)

RECURSIVE SumViolated(_, _)
SumViolated(c, fs) ==
  IF fs = {} THEN 0
  ELSE LET f == CHOOSE g \in fs : TRUE
       IN ViolatedBounds(c, f) + SumViolated(c, fs \ {f})

\* C29: validate_recipe_data returns valid iff every checked field (limits
\* configured, present, not null) has min <= value <= max with the bounds
\* inclusive and a missing bound imposing nothing; an empty configuration
\* accepts every record; the error list has one entry per violated bound,
\* and none for a field that is skipped.
C29_ValidIffWithinLimits ==
  validateCall # None =>
    LET c == validateCall[1] IN
    /\ c.valid <=> \A f \in CheckedFields(c) : WithinLimits(c, f)
    /\ DOMAIN c.limits = {} => c.valid
    /\ Len(c.errors) = SumViolated(c, CheckedFields(c))
    /\ \A i, j \in 1..Len(c.errors) : c.errors[i] = c.errors[j] => i = j
    /\ \A i \in 1..Len(c.errors) : c.errors[i][1] \in CheckedFields(c)

\* a call in which one value sits on its maximum and is accepted and a
\* null field with limits is skipped
C29_Witness ==
  /\ validateCall # None
  /\ validateCall[1].data = [f \in {"TOTAL_WT", "RECIPE_NUMBER"} |->
        IF f = "TOTAL_WT" THEN Some(10) ELSE None]
  /\ validateCall[1].limits = [f \in {"TOTAL_WT", "RECIPE_NUMBER"} |->
        [min |-> Some(0), max |-> Some(10)]]
  /\ validateCall[1].valid
  /\ validateCall[1].errors = <<>>

(* ------------------------ ACKNOWLEDGE between ticks ------------------- *)
\* C30: whenever no poll() is under way, whether the last one returned or
\* an exception left it, current_state is IDLE or FAULT, never ACKNOWLEDGE.
C30_AckTransient == pc = "wait" => current_state \in {IDLE, FAULT}

\* validate_recipe_data raised after the acknowledge: the tick is over, D
\* is in ACKNOWLEDGE and the trigger tag holds 2
C30_Witness ==
  /\ pc = "wait"
  /\ current_state = ACKNOWLEDGE
  /\ trigger = ACKNOWLEDGE
  /\ batchNo = 1

(* ----------------------- add_record from several threads -------------- *)
\* the entries the calls under examination have stored
AddedEntries == SelectSeq(pending, LAMBDA e : e.batch > MaxQueued)

\* the calls that have stored their entry and returned, or are about to
\* return, True
OkCalls == {<<t, c>> \in AddThreads \X (1..MaxAdds) : c \in addCall[t].oks}

\* C28: after k add_record calls from several threads have returned True
\* the queue holds its earlier entries and k more (as many entries as ids
\* were given out): one per call, with the record of that call, all ids
\* distinct; nothing is lost, stored twice or mixed up.
C28_AddsSerialised ==
  /\ Len(AddedEntries) = Cardinality(OkCalls)
  /\ Len(pending) = nextId - 1
  /\ \A i \in 1..(Len(pending) - Len(AddedEntries)) :
       pending[i] = NewEntry(i, i, [f \in {"TOTAL_WT"} |-> Some(1000)])
  /\ \A i, j \in 1..Len(pending) : i < j => pending[i].id < pending[j].id
  /\ \A tc \in OkCalls :
       \E i \in 1..Len(pending) :
         /\ pending[i].batch = AddTag(tc[1], tc[2])
         /\ pending[i].data = AddData(tc[1], tc[2])
         /\ pending[i].attempts = 0

\* every call of every thread has returned True on a queue that held
\* entries before
C28_Witness ==
  /\ \A t \in AddThreads : addCall[t] = [NoAdd EXCEPT !.calls = MaxAdds,
                                          !.oks = 1..MaxAdds,
                                          !.nid = addCall[t].nid]
  /\ Len(pending) = MaxQueued + MaxAdds * Cardinality(AddThreads)
  /\ pending[MaxQueued + 1].batch = AddTag("t3", 1)

(* ------------------------- the fault descriptor ----------------------- *)
\* the fault descriptor is present: an error kind and the time of entry
FaultDescriptor == last_error # NONE /\ fault_time # None

\* C31: between ticks the fault descriptor is present iff D is in FAULT
\* (last_error and the fault time are set together, and exactly then).
C31_DescriptorIffFault ==
  pc = "wait" =>
    /\ (current_state = FAULT <=> FaultDescriptor)
    /\ (last_error # NONE <=> fault_time # None)

\* a force_clear_fault call that began in an earlier fault has cleared the
\* descriptor while a tick was entering a new fault: between ticks D is in
\* FAULT with no error kind and no fault time
C31_Witness ==
  /\ pc = "wait"
  /\ forcePc = "idle"
  /\ forceCalls = 1
  /\ current_state = FAULT
  /\ last_error = NONE
  /\ fault_time = None

(* --------------------- SQL_OFFLINE between batches -------------------- *)
\* C32: between ticks, with D not in FAULT and the PLC connected, the status
\* is SQL_OFFLINE iff the latest persistence attempt ended in the cache; a
\* tick that makes no persistence attempt leaves that as it was.
C32_SqlOfflineIffLastInCache ==
  pc = "wait" /\ current_state # FAULT /\ plc_connected =>
    (get_status = SQL_OFFLINE <=> lastPersist = "C")

\* the first batch went to the cache, the second faulted before its persist
\* step and was recovered: D is IDLE, the PLC connected, nothing has reached
\* B, and the status is CONNECTED
C32_Witness ==
  /\ pc = "wait"
  /\ batchNo = 2
  /\ lastPersist = "C"
  /\ table = <<>>
  /\ current_state = IDLE
  /\ trigger = IDLE
  /\ plc_connected
  /\ get_status = CONNECTED

(* ------------------------ the bounded exchange ------------------------ *)
\* the names of the gateway's calls in the tick's log
PlcCalls == {"read_all_recipe_data", "write_trigger", "write_error_code"}

\* the PLC is reachable: the gateway is connected and no PLC call of the
\* tick under way has failed
PlcReachable ==
  /\ plc_connected
  /\ pc # "wait" => tickTrigger # None
  /\ \A i \in 1..Len(tickLog) : tickLog[i].op \in PlcCalls => tickLog[i].ok

\* the tick's writes of 0 and 99 to the trigger tag
ClosingWrites ==
  SelectSeq(CallsOf("write_trigger"), LAMBDA c : c.arg \in {IDLE, FAULT})

AddsRow == Len(table') = Len(table) + 1
NewRow == table'[Len(table')]

\* the row of batch b was inserted by the coordinator / batch b went to C
InsertedDirectly(b) == \E a \in accepted : a.batch = b /\ a.by = "sql"
WentThroughCache(b) == \E a \in accepted : a.batch = b /\ a.by = "cache"

\* C35 as stated: the rows of the remote table are in the order their
\* batches were triggered, and no row of a batch is inserted while an
\* earlier batch is still pending in C.
C35_TriggerOrderAsStated ==
  /\ [](\A i, j \in 1..Len(table) : i < j => table[i] <= table[j])
  /\ [][AddsRow =>
          \A k \in 1..Len(pending) : pending[k].batch >= NewRow]_vars

\* C35, amended: the drainer sends the entries of C in the order their
\* batches were triggered: the entry it inserts is never younger than an
\* entry still pending. The coordinator inserts the row of the batch at
\* hand at once, whatever is pending in C, so a row is ahead of the row of
\* an earlier batch only when it was inserted directly and the earlier
\* batch went through C.
C35_OrderAmongCached ==
  /\ [][AddsRow /\ syncPc = "insert" /\ syncPc' # "insert" =>
          \A k \in 1..Len(pending) : pending[k].batch >= NewRow]_vars
  /\ [][AddsRow /\ pc = "insert" /\ pc' # "insert" => NewRow = batchNo]_vars
  /\ [](\A i, j \in 1..Len(table) :
          i < j /\ table[i] > table[j] =>
            InsertedDirectly(table[i]) /\ WentThroughCache(table[j]))

\* batch 1 went to C, batch 2 was inserted directly and batch 1 was
\* drained after it
C35_Witness ==
  /\ table = <<2, 1>>
  /\ InsertedDirectly(2)
  /\ WentThroughCache(1)
  /\ pending = <<>>

(* ------------------------------- C36 ---------------------------------- *)
\* a step in which a gateway operation of the tick returns a failure:
\* read_trigger returns None, or a read or write logged by the tick fails
PlcOperationFails ==
  \/ pc = "wait" /\ pc' # "wait" /\ tickTrigger' = None
  \/ /\ Len(tickLog') = Len(tickLog) + 1
     /\ tickLog'[Len(tickLog')].op \in PlcCalls
     /\ ~tickLog'[Len(tickLog')].ok

\* C36: whenever a PLC read or write fails, the driver raising or returning
\* a result that carries an error, the gateway marks the connection dead
\* (is_connected is false afterwards).
C36_FailureMarksDead == [][PlcOperationFails => ~plc_connected']_vars

\* read_trigger has failed and the gateway still holds the connection for
\* live
C36_Witness ==
  /\ pc = "update_status"
  /\ tickLog = <<>>
  /\ tickTrigger = None
  /\ plc_connected

(* ------------------------------- C40 ---------------------------------- *)
\* the state machine has been constructed from the configuration
Constructed == startup # None /\ startup[1].extra_mappings # None

\* the tag names that are keys of both mappings
SharedKeys ==
  DOMAIN startup[1].mappings \cap DOMAIN startup[1].extra_mappings[1]

\* C40: the primary mapping and the extras mapping are composed only when
\* their key sets are disjoint: a configuration with a tag name in both is
\* rejected at startup, so no state machine is constructed from it, and no
\* column of the primary mapping is replaced in the union.
C40_OverlapRejected ==
  /\ Constructed => SharedKeys = {}
  /\ Constructed /\ startup[1].all_mappings # None =>
       \A k \in DOMAIN startup[1].mappings :
         startup[1].all_mappings[1][k] = startup[1].mappings[k]

\* sequence_number is a key of both mappings, the state machine is
\* constructed and the union carries the column of the extras mapping
C40_Witness ==
  /\ Constructed
  /\ "sequence_number" \in SharedKeys
  /\ startup[1].all_mappings # None
  /\ startup[1].all_mappings[1]["sequence_number"] = "SEQ_Number"
  /\ startup[1].mappings["sequence_number"] = "Sequence"

(* ------------------------------- C34 ---------------------------------- *)
\* B is reachable: it has not answered the entry sent last with a
\* transient failure; the cache itself works: the drain's last operation
\* on it succeeded
BReachable == syncKind # "transient"
CacheWorks == lastOpOk

\* C34: if C holds pending entries and B is reachable from some point on,
\* then with the drainer scheduled and running every pending entry
\* eventually leaves C (pending_count returns to 0); no entry at the head
\* keeps the younger ones from draining forever.
C34_DrainsAll ==
  []~stop_event /\ <>[](BReachable /\ CacheWorks) =>
    (pending # <<>> ~> pending = <<>>)

\* B is reachable and has refused the head entry with an integrity error
\* in cycle after cycle; a younger entry behind it has never been sent
C34_Witness ==
  /\ Len(pending) >= 2
  /\ pending[1].attempts = MaxAttempts
  /\ pending[2].attempts = 0
  /\ syncKind = "integrity"
  /\ ~stop_event

(* ------------------------------- C37 ---------------------------------- *)
\* the drainer is inside sql_client.insert_record (any iteration of its
\* retry loop, the backoff sleeps included)
DrainInInsert == loopPc = "sync_pending" /\ syncPc = "insert"

\* C37: the drainer never holds LocalCache's lock while it calls B.insert:
\* during the whole call a thread that waits for the lock in add_record
\* finds it free, or held by another add_record call, which will release
\* it; the drainer's lock is held only inside a cache operation.
C37_InsertOutsideLock ==
  /\ DrainInInsert =>
       /\ dbLock # "sync"
       /\ \A t \in DOMAIN addCall :
            addCall[t].pc = "acquire" =>
              dbLock = "none" \/ dbLock \in DOMAIN addCall \ {t}
  /\ dbLock = "sync" =>
       loopPc = "sync_pending" /\ syncPc \in CacheOperationPcs

\* the drainer is in the second attempt of insert_record and the thread t1
\* is inside add_record's with block, its row not yet committed
C37_Witness ==
  /\ DrainInInsert
  /\ attempt["sync"] = 1
  /\ dbLock = "t1"
  /\ addCall["t1"].pc = "commit"

(* ------------------------------- C38 ---------------------------------- *)
\* the drain is at the boundary of its inner loop, about to test
\* _stop_event
AtLoopBoundary ==
  loopPc = "sync_pending" /\ syncPc = "oldest" /\ dbLock # "sync"

\* C38: after stop_sync_thread the sync thread terminates without the help
\* of an expiring interval: a pending wait is cancelled, with the
\* force-sync event and without it; a drain cycle that reaches its loop
\* boundary with the stop event set starts no further drain step; a
\* thread that has left the loop stays out of it.
C38_StopTerminates ==
  /\ stop_event ~> loopPc = "exited"
  /\ [][stop_event /\ AtLoopBoundary => dbLock' # "sync"]_vars
  /\ [][loopPc = "exited" => loopPc' = "exited"]_vars
  /\ [](loopPc = "exited" => stop_event)

\* with entries still pending the thread has been woken from its wait by
\* the event stop_sync_thread set, has cleared it and has left the loop
C38_Witness ==
  /\ loopPc = "exited"
  /\ stopPc = "join"
  /\ force_sync_event = Some(FALSE)
  /\ pending # <<>>

(* ------------------------------- C39 ---------------------------------- *)
\* a request of a forced sync is outstanding: the event is set
ForceRequested == force_sync_event = Some(TRUE)

\* a drain cycle begins: the thread is about to call get_pending_count
CycleBegins ==
  loopPc = "sync_pending" /\ syncPc = "wait" /\ dbLock # "sync"

====
